---- MODULE Spec2Model ----
(***************************************************************************)
(* Text normalisation and topic extraction of trendbot:                    *)
(*   src/nlp/clean.py          STOPWORDS, GARBAGE_TOKENS,                  *)
(*                             normalize_for_topics                        *)
(*   src/ai/topic_extractor.py TopicExtractor.top_topics,                  *)
(*                             TopicExtractor._fallback_keyword_extraction *)
(*                             TopicExtractor.doc_topics                   *)
(*                                                                         *)
(* A Python str is a sequence of Unicode code points (naturals): "ai" is   *)
(* <<97, 105>>.  A Python value is a record [type, val]: val is the code   *)
(* point sequence of a str, <<n>> for the int n, and <<>> for None.        *)
(***************************************************************************)
EXTENDS Integers, Sequences, FiniteSets, TLC

VARIABLES
  op,                     \* entry point of the current call
  text,                   \* argument of normalize_for_topics (a Python value)
  corpus,                 \* argument of top_topics (a sequence of Python values)
  k,                      \* argument of top_topics
  pc,                     \* "call": the call is pending; "done": it has ended
  result,                 \* how the call ended: [exc, str, topics]
  passes,                 \* how many times normalize_for_topics has run on the text
  path,                   \* the return statement of top_topics that was taken
  top_topics_list,        \* top_topics: the pre-filter candidates
  filtered_topics,        \* top_topics: the gate-1 survivors
  final_filtered_topics,  \* top_topics: the gate-2 survivors
  tables,                 \* the module-level sets STOPWORDS and GARBAGE_TOKENS
  calls,                  \* how many calls have ended so far
  ties,                   \* how np.argsort orders equal scores at this call
  threads,                \* concurrent calls: the frame of each thread
  vectorizers,            \* concurrent calls: the vectorizer each holder refers to
  params,                 \* the vectorizer parameters chosen for a corpus size
  extractor               \* TopicExtractor: use_morphology, morph_analyzer

vars == <<op, text, corpus, k, pc, result, passes, path,
          top_topics_list, filtered_topics, final_filtered_topics,
          tables, calls, ties, threads, vectorizers, params, extractor>>

----------------------------------------------------------------------------
(* Python values *)

PyStr(s) == [type |-> "str", val |-> s]
PyNone == [type |-> "NoneType", val |-> <<>>]
PyInt(n) == [type |-> "int", val |-> <<n>>]

IsStr(v) == v.type = "str"

\* bool(v): None, 0 and the empty str are falsy.
Truthy(v) ==
  CASE v.type = "NoneType" -> FALSE
    [] v.type = "int" -> v.val[1] # 0
    [] OTHER -> Len(v.val) > 0

----------------------------------------------------------------------------
(* Character classes, as Python's str methods and the re module (str       *)
(* patterns, Unicode) see them.  The classes are exact on ASCII, Latin-1,  *)
(* the Arabic-Indic digits, the Hangul syllables and the CJK ideographs;   *)
(* the model's inputs stay within these blocks.                            *)

IsAsciiLetter(c) == c \in 65..90 \/ c \in 97..122
IsAsciiDigit(c) == c \in 48..57
IsHexDigit(c) == IsAsciiDigit(c) \/ c \in 65..70 \/ c \in 97..102
\* [가-힣]
IsHangul(c) == c \in 44032..55203
\* \d: the decimal digits (Nd)
IsDecimal(c) == IsAsciiDigit(c) \/ c \in 1632..1641
\* str.isdigit(): the decimal digits and the superscript digits
IsDigitChar(c) == IsDecimal(c) \/ c \in {178, 179, 185}
\* str.isspace(), \s and the separators of str.split()
IsSpace(c) == c \in 9..13 \/ c \in 28..32 \/ c \in {133, 160, 12288}
NotSpace(c) == ~IsSpace(c)
IsLatin1Letter(c) ==
  c \in {170, 181, 186} \/ c \in 192..214 \/ c \in 216..246 \/ c \in 248..255
\* \w: alphanumeric or underscore
IsWord(c) ==
  \/ IsAsciiLetter(c) \/ IsDigitChar(c) \/ c = 95
  \/ IsLatin1Letter(c) \/ c \in {188, 189, 190}
  \/ IsHangul(c) \/ c \in 19968..40959
\* [가-힣a-zA-Z]
IsHangulOrLatin(c) == IsHangul(c) \/ IsAsciiLetter(c)

\* [^\t\n\f <&#;] (html.unescape)
IsNameChar(c) == c \notin {9, 10, 12, 32, 60, 38, 35, 59}
\* [a-zA-Z0-9#]
IsEntityChar(c) == IsAsciiLetter(c) \/ IsAsciiDigit(c) \/ c = 35
\* [a-zA-Z0-9._%+-]
IsLocalChar(c) ==
  IsAsciiLetter(c) \/ IsAsciiDigit(c) \/ c \in {46, 95, 37, 43, 45}
\* [a-zA-Z0-9.-]
IsDomainChar(c) == IsAsciiLetter(c) \/ IsAsciiDigit(c) \/ c \in {46, 45}

\* Membership of a character in a class, the class named as the patterns
\* write it ("hangul" stands for the range from U+AC00 to U+D7A3).
InClass(cls, c) ==
  CASE cls = "\\s" -> IsSpace(c)
    [] cls = "[^\\s]" -> NotSpace(c)
    [] cls = "\\d" -> IsDecimal(c)
    [] cls = "[0-9]" -> IsAsciiDigit(c)
    [] cls = "[0-9a-fA-F]" -> IsHexDigit(c)
    [] cls = "[a-zA-Z]" -> IsAsciiLetter(c)
    [] cls = "[hangul a-zA-Z]" -> IsHangulOrLatin(c)
    [] cls = "[^>]" -> c # 62
    [] cls = "[a-zA-Z0-9#]" -> IsEntityChar(c)
    [] cls = "[a-zA-Z0-9._%+-]" -> IsLocalChar(c)
    [] cls = "[a-zA-Z0-9.-]" -> IsDomainChar(c)
    [] cls = "[^\\t\\n\\f <&#;]" -> IsNameChar(c)

\* str.lower(), one character
LowerChar(c) ==
  IF c \in 65..90 \/ c \in 192..214 \/ c \in 216..222 THEN c + 32 ELSE c

\* str.lower()
Lower(s) == [i \in 1..Len(s) |-> LowerChar(s[i])]

\* str.isdigit(): non-empty and every character a digit
IsDigitStr(s) == Len(s) > 0 /\ \A i \in 1..Len(s) : IsDigitChar(s[i])
\* any(char.isdigit() for char in s)
HasDigit(s) == \E i \in 1..Len(s) : IsDigitChar(s[i])

----------------------------------------------------------------------------
(* String helpers *)

\* The first index j >= i whose character is not in the class (Len(s) + 1
\* when there is none): where a greedy cls* starting at i ends.
SpanWhile(cls, s, i) ==
  CHOOSE j \in i..(Len(s) + 1) :
    /\ \A m \in i..(j - 1) : InClass(cls, s[m])
    /\ (j = Len(s) + 1 \/ ~InClass(cls, s[j]))

\* s[i:] starts with p
StartsAt(s, i, p) ==
  /\ i + Len(p) - 1 <= Len(s)
  /\ \A m \in 1..Len(p) : s[i + m - 1] = p[m]

\* needle in s (substring containment)
Contains(s, needle) == \E i \in 1..(Len(s) + 1) : StartsAt(s, i, needle)

\* str.split(): the maximal runs of non-whitespace characters, in order
RECURSIVE SplitFrom(_, _)
SplitFrom(s, i) ==
  IF i > Len(s) THEN <<>>
  ELSE IF IsSpace(s[i]) THEN SplitFrom(s, i + 1)
  ELSE LET e == SpanWhile("[^\\s]", s, i)
       IN <<SubSeq(s, i, e - 1)>> \o SplitFrom(s, e)

Split(s) == SplitFrom(s, 1)

\* sep.join(parts)
RECURSIVE Join(_, _)
Join(sep, parts) ==
  IF Len(parts) = 0 THEN <<>>
  ELSE IF Len(parts) = 1 THEN parts[1]
  ELSE parts[1] \o sep \o Join(sep, Tail(parts))

\* str.strip()
Strip(s) ==
  IF \A i \in 1..Len(s) : IsSpace(s[i]) THEN <<>>
  ELSE LET a == SpanWhile("\\s", s, 1)
           b == CHOOSE j \in 1..Len(s) :
                  NotSpace(s[j]) /\ \A m \in (j + 1)..Len(s) : IsSpace(s[m])
       IN SubSeq(s, a, b)

\* [xs[i] for i in range(len(xs)) if keep[i]]
RECURSIVE Select(_, _)
Select(xs, keep) ==
  IF Len(xs) = 0 THEN <<>>
  ELSE (IF keep[1] THEN <<xs[1]>> ELSE <<>>) \o Select(Tail(xs), Tail(keep))

\* the slice without its limit
Take_NoLimit(xs, n) == xs

\* xs[:n] for n >= 0
Take(xs, n) == SubSeq(xs, 1, IF n < Len(xs) THEN n ELSE Len(xs))

Range(xs) == {xs[i] : i \in 1..Len(xs)}

----------------------------------------------------------------------------
(* Vocabulary tables (clean.py lines 9-124) and the fixed lists *)

STOPWORDS ==
  {
    <<44536>>,  \* 그
    <<51060>>,  \* 이
    <<51200>>,  \* 저
    <<44163>>,  \* 것
    <<46412>>,  \* 때
    <<44275>>,  \* 곳
    <<51068>>,  \* 일
    <<48264>>,  \* 번
    <<44032, 51648>>,  \* 가지
    <<44060>>,  \* 개
    <<45380>>,  \* 년
    <<50900>>,  \* 월
    <<49884>>,  \* 시
    <<48516>>,  \* 분
    <<52488>>,  \* 초
    <<54616, 45208>>,  \* 하나
    <<46168>>,  \* 둘
    <<49483>>,  \* 셋
    <<45348>>,  \* 네
    <<45796, 49455>>,  \* 다섯
    <<50668, 49455>>,  \* 여섯
    <<51068, 44273>>,  \* 일곱
    <<50668, 45919>>,  \* 여덟
    <<50500, 54857>>,  \* 아홉
    <<50676>>,  \* 열
    <<44536, 44163>>,  \* 그것
    <<51060, 44163>>,  \* 이것
    <<51200, 44163>>,  \* 저것
    <<50668, 44592>>,  \* 여기
    <<51200, 44592>>,  \* 저기
    <<44144, 44592>>,  \* 거기
    <<51060, 44275>>,  \* 이곳
    <<51200, 44275>>,  \* 저곳
    <<45208>>,  \* 나
    <<45320>>,  \* 너
    <<50864, 47532>>,  \* 우리
    <<44536, 46308>>,  \* 그들
    <<45817, 49888>>,  \* 당신
    <<51088, 49888>>,  \* 자신
    <<45716>>,  \* 는
    <<51008>>,  \* 은
    <<44032>>,  \* 가
    <<51012>>,  \* 을
    <<47484>>,  \* 를
    <<50640>>,  \* 에
    <<51032>>,  \* 의
    <<47196>>,  \* 로
    <<50752>>,  \* 와
    <<44284>>,  \* 과
    <<46020>>,  \* 도
    <<47564>>,  \* 만
    <<48512, 53552>>,  \* 부터
    <<44620, 51648>>,  \* 까지
    <<54616, 45796>>,  \* 하다
    <<46104, 45796>>,  \* 되다
    <<51080, 45796>>,  \* 있다
    <<50630, 45796>>,  \* 없다
    <<44057, 45796>>,  \* 같다
    <<45796, 47476, 45796>>,  \* 다르다
    <<47566, 45796>>,  \* 많다
    <<51201, 45796>>,  \* 적다
    <<53356, 45796>>,  \* 크다
    <<51089, 45796>>,  \* 작다
    <<51339, 45796>>,  \* 좋다
    <<45208, 49240, 45796>>,  \* 나쁘다
    <<49352, 47196>>,  \* 새로
    <<50724, 47000>>,  \* 오래
    <<46608>>,  \* 또
    <<44536, 47532, 44256>>,  \* 그리고
    <<44536, 47084, 45208>>,  \* 그러나
    <<54616, 51648, 47564>>,  \* 하지만
    <<44536, 47000, 49436>>,  \* 그래서
    <<46384, 46972, 49436>>,  \* 따라서
    <<44536, 47088, 45936>>,  \* 그런데
    <<44536, 47084, 47732>>,  \* 그러면
    <<47588, 50864>>,  \* 매우
    <<45320, 47924>>,  \* 너무
    <<51221, 47568>>,  \* 정말
    <<51652, 51676>>,  \* 진짜
    <<50500, 51452>>,  \* 아주
    <<44900>>,  \* 꽤
    <<49345, 45817, 55176>>,  \* 상당히
    <<51312, 44552>>,  \* 조금
    <<50557, 44036>>,  \* 약간
    <<54637, 49345>>,  \* 항상
    <<44032, 45140>>,  \* 가끔
    <<51088, 51452>>,  \* 자주
    <<46412, 46412, 47196>>,  \* 때때로
    <<50616, 51228, 45208>>,  \* 언제나
    <<51208, 45824>>,  \* 절대
    <<44208, 53076>>,  \* 결코
    <<47784, 46304>>,  \* 모든
    <<44033>>,  \* 각
    <<50612, 46500>>,  \* 어떤
    <<51204, 52404>>,  \* 전체
    <<51068, 48512>>,  \* 일부
    <<45824, 48512, 48516>>,  \* 대부분
    <<116, 104, 101>>,  \* the
    <<97>>,  \* a
    <<97, 110>>,  \* an
    <<97, 110, 100>>,  \* and
    <<111, 114>>,  \* or
    <<98, 117, 116>>,  \* but
    <<105, 110>>,  \* in
    <<111, 110>>,  \* on
    <<97, 116>>,  \* at
    <<116, 111>>,  \* to
    <<102, 111, 114>>,  \* for
    <<111, 102>>,  \* of
    <<119, 105, 116, 104>>,  \* with
    <<98, 121>>,  \* by
    <<105, 115>>,  \* is
    <<97, 114, 101>>,  \* are
    <<119, 97, 115>>,  \* was
    <<119, 101, 114, 101>>,  \* were
    <<98, 101>>,  \* be
    <<98, 101, 101, 110>>,  \* been
    <<98, 101, 105, 110, 103>>,  \* being
    <<104, 97, 118, 101>>,  \* have
    <<104, 97, 115>>,  \* has
    <<104, 97, 100>>,  \* had
    <<100, 111>>,  \* do
    <<100, 111, 101, 115>>,  \* does
    <<100, 105, 100>>,  \* did
    <<119, 105, 108, 108>>,  \* will
    <<119, 111, 117, 108, 100>>,  \* would
    <<99, 111, 117, 108, 100>>,  \* could
    <<115, 104, 111, 117, 108, 100>>,  \* should
    <<109, 97, 121>>,  \* may
    <<109, 105, 103, 104, 116>>,  \* might
    <<109, 117, 115, 116>>,  \* must
    <<99, 97, 110>>,  \* can
    <<115, 104, 97, 108, 108>>,  \* shall
    <<105>>,  \* i
    <<121, 111, 117>>,  \* you
    <<104, 101>>,  \* he
    <<115, 104, 101>>,  \* she
    <<105, 116>>,  \* it
    <<119, 101>>,  \* we
    <<116, 104, 101, 121>>,  \* they
    <<109, 101>>,  \* me
    <<104, 105, 109>>,  \* him
    <<104, 101, 114>>,  \* her
    <<117, 115>>,  \* us
    <<116, 104, 101, 109>>,  \* them
    <<116, 104, 105, 115>>,  \* this
    <<116, 104, 97, 116>>,  \* that
    <<116, 104, 101, 115, 101>>,  \* these
    <<116, 104, 111, 115, 101>>,  \* those
    <<104, 101, 114, 101>>,  \* here
    <<116, 104, 101, 114, 101>>,  \* there
    <<119, 104, 101, 114, 101>>,  \* where
    <<119, 104, 101, 110>>,  \* when
    <<119, 104, 121>>,  \* why
    <<104, 111, 119>>,  \* how
    <<97, 108, 108>>,  \* all
    <<97, 110, 121>>,  \* any
    <<98, 111, 116, 104>>,  \* both
    <<101, 97, 99, 104>>,  \* each
    <<102, 101, 119>>,  \* few
    <<109, 111, 114, 101>>,  \* more
    <<109, 111, 115, 116>>,  \* most
    <<111, 116, 104, 101, 114>>,  \* other
    <<115, 111, 109, 101>>,  \* some
    <<115, 117, 99, 104>>,  \* such
    <<110, 111, 116>>,  \* not
    <<111, 110, 108, 121>>,  \* only
    <<111, 119, 110>>,  \* own
    <<115, 97, 109, 101>>,  \* same
    <<115, 111>>,  \* so
    <<116, 104, 97, 110>>,  \* than
    <<116, 111, 111>>,  \* too
    <<118, 101, 114, 121>>,  \* very
    <<106, 117, 115, 116>>,  \* just
    <<110, 111, 119>>  \* now
  }

GARBAGE_TOKENS ==
  {
    <<110, 98, 115, 112>>,  \* nbsp
    <<113, 117, 111, 116>>,  \* quot
    <<97, 109, 112>>,  \* amp
    <<108, 116>>,  \* lt
    <<103, 116>>,  \* gt
    <<102, 111, 110, 116>>,  \* font
    <<104, 114, 101, 102>>,  \* href
    <<98, 114>>,  \* br
    <<115, 112, 97, 110>>,  \* span
    <<100, 105, 118>>,  \* div
    <<99, 108, 97, 115, 115>>,  \* class
    <<105, 100>>,  \* id
    <<115, 116, 121, 108, 101>>,  \* style
    <<115, 99, 114, 105, 112, 116>>,  \* script
    <<99, 115, 115>>,  \* css
    <<106, 115>>,  \* js
    <<106, 113, 117, 101, 114, 121>>,  \* jquery
    <<97, 106, 97, 120>>,  \* ajax
    <<106, 115, 111, 110>>,  \* json
    <<120, 109, 108>>,  \* xml
    <<104, 116, 109, 108>>,  \* html
    <<104, 116, 109>>,  \* htm
    <<112, 104, 112>>,  \* php
    <<97, 115, 112>>,  \* asp
    <<106, 115, 112>>,  \* jsp
    <<104, 116, 116, 112>>,  \* http
    <<104, 116, 116, 112, 115>>,  \* https
    <<119, 119, 119>>,  \* www
    <<99, 111, 109>>,  \* com
    <<110, 101, 116>>,  \* net
    <<111, 114, 103>>,  \* org
    <<99, 111>>,  \* co
    <<107, 114>>,  \* kr
    <<108, 105, 110, 107>>,  \* link
    <<117, 114, 108>>,  \* url
    <<115, 114, 99>>,  \* src
    <<105, 109, 103>>,  \* img
    <<103, 111, 111, 103, 108, 101>>,  \* google
    <<110, 101, 119, 115>>,  \* news
    <<110, 97, 118, 101, 114>>,  \* naver
    <<100, 97, 117, 109>>,  \* daum
    <<121, 97, 104, 111, 111>>,  \* yahoo
    <<98, 105, 110, 103>>,  \* bing
    <<115, 101, 97, 114, 99, 104>>,  \* search
    <<121, 111, 117, 116, 117, 98, 101>>,  \* youtube
    <<102, 97, 99, 101, 98, 111, 111, 107>>,  \* facebook
    <<116, 119, 105, 116, 116, 101, 114>>,  \* twitter
    <<105, 110, 115, 116, 97, 103, 114, 97, 109>>,  \* instagram
    <<108, 105, 110, 107, 101, 100, 105, 110>>,  \* linkedin
    <<103, 105, 116, 104, 117, 98>>,  \* github
    <<115, 116, 97, 99, 107, 111, 118, 101, 114, 102, 108, 111, 119>>,  \* stackoverflow
    <<114, 101, 100, 100, 105, 116>>,  \* reddit
    <<113, 117, 111, 114, 97>>,  \* quora
    <<99, 108, 105, 99, 107>>,  \* click
    <<118, 105, 101, 119>>,  \* view
    <<109, 111, 114, 101>>,  \* more
    <<114, 101, 97, 100>>,  \* read
    <<115, 101, 101>>,  \* see
    <<115, 104, 111, 119>>,  \* show
    <<104, 105, 100, 101>>,  \* hide
    <<111, 112, 101, 110>>,  \* open
    <<99, 108, 111, 115, 101>>,  \* close
    <<98, 117, 116, 116, 111, 110>>,  \* button
    <<109, 101, 110, 117>>,  \* menu
    <<110, 97, 118>>,  \* nav
    <<110, 97, 118, 105, 103, 97, 116, 105, 111, 110>>,  \* navigation
    <<104, 101, 97, 100, 101, 114>>,  \* header
    <<102, 111, 111, 116, 101, 114>>,  \* footer
    <<115, 105, 100, 101, 98, 97, 114>>,  \* sidebar
    <<116, 111, 112>>,  \* top
    <<98, 111, 116, 116, 111, 109>>,  \* bottom
    <<108, 101, 102, 116>>,  \* left
    <<114, 105, 103, 104, 116>>,  \* right
    <<99, 101, 110, 116, 101, 114>>,  \* center
    <<109, 105, 100, 100, 108, 101>>,  \* middle
    <<102, 105, 114, 115, 116>>,  \* first
    <<108, 97, 115, 116>>,  \* last
    <<112, 114, 101, 118>>,  \* prev
    <<110, 101, 120, 116>>,  \* next
    <<112, 114, 101, 118, 105, 111, 117, 115>>,  \* previous
    <<98, 97, 99, 107>>,  \* back
    <<102, 111, 114, 119, 97, 114, 100>>,  \* forward
    <<117, 112>>,  \* up
    <<100, 111, 119, 110>>,  \* down
    <<112, 97, 103, 101>>,  \* page
    <<115, 105, 116, 101>>,  \* site
    <<119, 101, 98>>,  \* web
    <<98, 108, 111, 103>>,  \* blog
    <<112, 111, 115, 116>>,  \* post
    <<97, 114, 116, 105, 99, 108, 101>>,  \* article
    <<99, 111, 110, 116, 101, 110, 116>>,  \* content
    <<116, 101, 120, 116>>,  \* text
    <<100, 97, 116, 97>>,  \* data
    <<105, 110, 102, 111>>,  \* info
    <<97, 100>>,  \* ad
    <<97, 100, 115>>,  \* ads
    <<97, 100, 118, 101, 114, 116, 105, 115, 101, 109, 101, 110, 116>>,  \* advertisement
    <<98, 97, 110, 110, 101, 114>>,  \* banner
    <<112, 111, 112, 117, 112>>,  \* popup
    <<109, 111, 100, 97, 108>>,  \* modal
    <<100, 105, 97, 108, 111, 103>>,  \* dialog
    <<119, 105, 110, 100, 111, 119>>,  \* window
    <<116, 97, 98>>,  \* tab
    <<99, 111, 112, 121, 114, 105, 103, 104, 116>>,  \* copyright
    <<114, 101, 115, 101, 114, 118, 101, 100>>,  \* reserved
    <<114, 105, 103, 104, 116, 115>>,  \* rights
    <<116, 101, 114, 109, 115>>,  \* terms
    <<112, 114, 105, 118, 97, 99, 121>>,  \* privacy
    <<112, 111, 108, 105, 99, 121>>,  \* policy
    <<99, 111, 111, 107, 105, 101>>,  \* cookie
    <<103, 100, 112, 114>>,  \* gdpr
    <<104, 111, 109, 101>>,  \* home
    <<97, 98, 111, 117, 116>>,  \* about
    <<99, 111, 110, 116, 97, 99, 116>>,  \* contact
    <<104, 101, 108, 112>>,  \* help
    <<102, 97, 113>>,  \* faq
    <<115, 117, 112, 112, 111, 114, 116>>,  \* support
    <<108, 111, 103, 105, 110>>,  \* login
    <<114, 101, 103, 105, 115, 116, 101, 114>>,  \* register
    <<115, 105, 103, 110, 117, 112>>,  \* signup
    <<115, 105, 103, 110, 105, 110>>,  \* signin
    <<108, 111, 103, 111, 117, 116>>,  \* logout
    <<112, 114, 111, 102, 105, 108, 101>>,  \* profile
    <<97, 99, 99, 111, 117, 110, 116>>,  \* account
    <<115, 101, 116, 116, 105, 110, 103, 115>>,  \* settings
    <<112, 114, 101, 102, 101, 114, 101, 110, 99, 101, 115>>,  \* preferences
    <<111, 112, 116, 105, 111, 110, 115>>,  \* options
    <<116, 111, 100, 97, 121>>,  \* today
    <<121, 101, 115, 116, 101, 114, 100, 97, 121>>,  \* yesterday
    <<116, 111, 109, 111, 114, 114, 111, 119>>,  \* tomorrow
    <<119, 101, 101, 107>>,  \* week
    <<109, 111, 110, 116, 104>>,  \* month
    <<121, 101, 97, 114>>,  \* year
    <<116, 105, 109, 101>>,  \* time
    <<100, 97, 116, 101>>,  \* date
    <<100, 97, 121>>,  \* day
    <<97, 109>>,  \* am
    <<112, 109>>,  \* pm
    <<109, 111, 114, 110, 105, 110, 103>>,  \* morning
    <<97, 102, 116, 101, 114, 110, 111, 111, 110>>,  \* afternoon
    <<101, 118, 101, 110, 105, 110, 103>>,  \* evening
    <<110, 105, 103, 104, 116>>,  \* night
    <<104, 111, 117, 114>>,  \* hour
    <<109, 105, 110, 117, 116, 101>>,  \* minute
    <<115, 101, 99, 111, 110, 100>>,  \* second
    <<109, 111, 110, 100, 97, 121>>,  \* monday
    <<116, 117, 101, 115, 100, 97, 121>>,  \* tuesday
    <<119, 101, 100, 110, 101, 115, 100, 97, 121>>,  \* wednesday
    <<116, 104, 117, 114, 115, 100, 97, 121>>,  \* thursday
    <<102, 114, 105, 100, 97, 121>>,  \* friday
    <<115, 97, 116, 117, 114, 100, 97, 121>>,  \* saturday
    <<115, 117, 110, 100, 97, 121>>,  \* sunday
    <<106, 97, 110, 117, 97, 114, 121>>,  \* january
    <<102, 101, 98, 114, 117, 97, 114, 121>>,  \* february
    <<109, 97, 114, 99, 104>>,  \* march
    <<97, 112, 114, 105, 108>>,  \* april
    <<109, 97, 121>>,  \* may
    <<106, 117, 110, 101>>,  \* june
    <<106, 117, 108, 121>>,  \* july
    <<97, 117, 103, 117, 115, 116>>,  \* august
    <<115, 101, 112, 116, 101, 109, 98, 101, 114>>,  \* september
    <<111, 99, 116, 111, 98, 101, 114>>,  \* october
    <<110, 111, 118, 101, 109, 98, 101, 114>>,  \* november
    <<100, 101, 99, 101, 109, 98, 101, 114>>,  \* december
    <<97, 112, 105>>,  \* api
    <<115, 100, 107>>,  \* sdk
    <<102, 114, 97, 109, 101, 119, 111, 114, 107>>,  \* framework
    <<108, 105, 98, 114, 97, 114, 121>>,  \* library
    <<109, 111, 100, 117, 108, 101>>,  \* module
    <<112, 97, 99, 107, 97, 103, 101>>,  \* package
    <<118, 101, 114, 115, 105, 111, 110>>,  \* version
    <<117, 112, 100, 97, 116, 101>>,  \* update
    <<100, 111, 119, 110, 108, 111, 97, 100>>,  \* download
    <<105, 110, 115, 116, 97, 108, 108>>,  \* install
    <<115, 101, 116, 117, 112>>,  \* setup
    <<99, 111, 110, 102, 105, 103>>,  \* config
    <<99, 111, 110, 102, 105, 103, 117, 114, 97, 116, 105, 111, 110>>,  \* configuration
    <<115, 101, 116, 116, 105, 110, 103>>,  \* setting
    <<111, 112, 116, 105, 111, 110>>,  \* option
    <<111, 110, 108, 105, 110, 101>>,  \* online
    <<111, 102, 102, 108, 105, 110, 101>>,  \* offline
    <<105, 110, 116, 101, 114, 110, 101, 116>>,  \* internet
    <<119, 101, 98, 115, 105, 116, 101>>,  \* website
    <<119, 101, 98, 112, 97, 103, 101>>,  \* webpage
    <<98, 114, 111, 119, 115, 101, 114>>,  \* browser
    <<99, 104, 114, 111, 109, 101>>,  \* chrome
    <<102, 105, 114, 101, 102, 111, 120>>,  \* firefox
    <<115, 97, 102, 97, 114, 105>>,  \* safari
    <<101, 100, 103, 101>>,  \* edge
    <<109, 111, 98, 105, 108, 101>>,  \* mobile
    <<100, 101, 115, 107, 116, 111, 112>>,  \* desktop
    <<116, 97, 98, 108, 101, 116>>,  \* tablet
    <<112, 104, 111, 110, 101>>,  \* phone
    <<100, 101, 118, 105, 99, 101>>,  \* device
    <<109, 101, 100, 105, 97>>,  \* media
    <<112, 114, 101, 115, 115>>,  \* press
    <<106, 111, 117, 114, 110, 97, 108>>,  \* journal
    <<109, 97, 103, 97, 122, 105, 110, 101>>,  \* magazine
    <<110, 101, 119, 115, 112, 97, 112, 101, 114>>,  \* newspaper
    <<116, 118>>,  \* tv
    <<114, 97, 100, 105, 111>>,  \* radio
    <<112, 111, 100, 99, 97, 115, 116>>,  \* podcast
    <<118, 105, 100, 101, 111>>,  \* video
    <<97, 117, 100, 105, 111>>,  \* audio
    <<105, 109, 97, 103, 101>>,  \* image
    <<112, 104, 111, 116, 111>>,  \* photo
    <<112, 105, 99, 116, 117, 114, 101>>,  \* picture
    <<103, 114, 97, 112, 104, 105, 99>>,  \* graphic
    <<99, 104, 97, 114, 116>>,  \* chart
    <<103, 114, 97, 112, 104>>,  \* graph
    <<115, 111, 99, 105, 97, 108>>,  \* social
    <<115, 104, 97, 114, 101>>,  \* share
    <<108, 105, 107, 101>>,  \* like
    <<99, 111, 109, 109, 101, 110, 116>>,  \* comment
    <<114, 101, 112, 108, 121>>,  \* reply
    <<102, 111, 108, 108, 111, 119>>,  \* follow
    <<117, 110, 102, 111, 108, 108, 111, 119>>,  \* unfollow
    <<115, 117, 98, 115, 99, 114, 105, 98, 101>>,  \* subscribe
    <<117, 110, 115, 117, 98, 115, 99, 114, 105, 98, 101>>,  \* unsubscribe
    <<110, 111, 116, 105, 102, 105, 99, 97, 116, 105, 111, 110>>,  \* notification
    <<97, 108, 101, 114, 116>>,  \* alert
    <<109, 101, 115, 115, 97, 103, 101>>,  \* message
    <<99, 104, 97, 116>>,  \* chat
    <<102, 111, 114, 117, 109>>,  \* forum
    <<99, 111, 109, 109, 117, 110, 105, 116, 121>>,  \* community
    <<101, 109, 97, 105, 108>>,  \* email
    <<109, 97, 105, 108>>,  \* mail
    <<115, 101, 110, 100>>,  \* send
    <<114, 101, 99, 101, 105, 118, 101>>,  \* receive
    <<105, 110, 98, 111, 120>>,  \* inbox
    <<111, 117, 116, 98, 111, 120>>,  \* outbox
    <<115, 112, 97, 109>>,  \* spam
    <<116, 114, 97, 115, 104>>,  \* trash
    <<100, 114, 97, 102, 116>>,  \* draft
    <<102, 105, 108, 101>>,  \* file
    <<102, 111, 108, 100, 101, 114>>,  \* folder
    <<100, 105, 114, 101, 99, 116, 111, 114, 121>>,  \* directory
    <<117, 112, 108, 111, 97, 100>>,  \* upload
    <<115, 97, 118, 101>>,  \* save
    <<100, 101, 108, 101, 116, 101>>,  \* delete
    <<99, 111, 112, 121>>,  \* copy
    <<112, 97, 115, 116, 101>>,  \* paste
    <<99, 117, 116>>,  \* cut
    <<101, 100, 105, 116>>,  \* edit
    <<99, 114, 101, 97, 116, 101>>,  \* create
    <<110, 101, 119>>,  \* new
    <<111, 108, 100>>,  \* old
    <<114, 101, 99, 101, 110, 116>>,  \* recent
    <<108, 97, 116, 101, 115, 116>>,  \* latest
    <<117, 112, 100, 97, 116, 101, 100>>,  \* updated
    <<97, 99, 116, 105, 118, 101>>,  \* active
    <<105, 110, 97, 99, 116, 105, 118, 101>>,  \* inactive
    <<101, 110, 97, 98, 108, 101, 100>>,  \* enabled
    <<100, 105, 115, 97, 98, 108, 101, 100>>,  \* disabled
    <<111, 110>>,  \* on
    <<111, 102, 102>>,  \* off
    <<121, 101, 115>>,  \* yes
    <<110, 111>>,  \* no
    <<116, 114, 117, 101>>,  \* true
    <<102, 97, 108, 115, 101>>,  \* false
    <<115, 117, 99, 99, 101, 115, 115>>,  \* success
    <<101, 114, 114, 111, 114>>,  \* error
    <<119, 97, 114, 110, 105, 110, 103>>,  \* warning
    <<100, 101, 98, 117, 103>>,  \* debug
    <<116, 101, 115, 116>>,  \* test
    <<100, 101, 109, 111>>,  \* demo
    <<115, 105, 122, 101>>,  \* size
    <<115, 109, 97, 108, 108>>,  \* small
    <<109, 101, 100, 105, 117, 109>>,  \* medium
    <<108, 97, 114, 103, 101>>,  \* large
    <<98, 105, 103>>,  \* big
    <<116, 105, 110, 121>>,  \* tiny
    <<104, 117, 103, 101>>,  \* huge
    <<109, 97, 115, 115, 105, 118, 101>>,  \* massive
    <<109, 105, 110, 105>>,  \* mini
    <<109, 105, 99, 114, 111>>,  \* micro
    <<109, 97, 99, 114, 111>>,  \* macro
    <<102, 117, 108, 108>>,  \* full
    <<101, 109, 112, 116, 121>>,  \* empty
    <<104, 97, 108, 102>>,  \* half
    <<113, 117, 97, 114, 116, 101, 114>>,  \* quarter
    <<100, 111, 117, 98, 108, 101>>,  \* double
    <<116, 114, 105, 112, 108, 101>>,  \* triple
    <<99, 111, 108, 111, 114>>,  \* color
    <<99, 111, 108, 111, 117, 114>>,  \* colour
    <<114, 101, 100>>,  \* red
    <<103, 114, 101, 101, 110>>,  \* green
    <<98, 108, 117, 101>>,  \* blue
    <<121, 101, 108, 108, 111, 119>>,  \* yellow
    <<111, 114, 97, 110, 103, 101>>,  \* orange
    <<112, 117, 114, 112, 108, 101>>,  \* purple
    <<112, 105, 110, 107>>,  \* pink
    <<98, 108, 97, 99, 107>>,  \* black
    <<119, 104, 105, 116, 101>>,  \* white
    <<103, 114, 97, 121>>,  \* gray
    <<103, 114, 101, 121>>,  \* grey
    <<98, 114, 111, 119, 110>>,  \* brown
    <<100, 97, 114, 107>>,  \* dark
    <<108, 105, 103, 104, 116>>,  \* light
    <<98, 114, 105, 103, 104, 116>>,  \* bright
    <<100, 105, 109>>,  \* dim
    <<108, 111, 99, 97, 116, 105, 111, 110>>,  \* location
    <<112, 108, 97, 99, 101>>,  \* place
    <<112, 111, 115, 105, 116, 105, 111, 110>>,  \* position
    <<97, 114, 101, 97>>,  \* area
    <<114, 101, 103, 105, 111, 110>>,  \* region
    <<99, 111, 117, 110, 116, 114, 121>>,  \* country
    <<99, 105, 116, 121>>,  \* city
    <<115, 116, 97, 116, 101>>,  \* state
    <<97, 100, 100, 114, 101, 115, 115>>,  \* address
    <<115, 116, 114, 101, 101, 116>>,  \* street
    <<114, 111, 97, 100>>,  \* road
    <<97, 118, 101, 110, 117, 101>>,  \* avenue
    <<98, 111, 117, 108, 101, 118, 97, 114, 100>>,  \* boulevard
    <<108, 97, 110, 101>>,  \* lane
    <<100, 114, 105, 118, 101>>,  \* drive
    <<119, 97, 121>>,  \* way
    <<110, 111, 114, 116, 104>>,  \* north
    <<115, 111, 117, 116, 104>>,  \* south
    <<101, 97, 115, 116>>,  \* east
    <<119, 101, 115, 116>>,  \* west
    <<110, 111, 114, 116, 104, 101, 97, 115, 116>>,  \* northeast
    <<110, 111, 114, 116, 104, 119, 101, 115, 116>>,  \* northwest
    <<115, 111, 117, 116, 104, 101, 97, 115, 116>>,  \* southeast
    <<115, 111, 117, 116, 104, 119, 101, 115, 116>>,  \* southwest
    <<102, 114, 111, 110, 116>>,  \* front
    <<115, 105, 100, 101>>,  \* side
    <<99, 111, 114, 110, 101, 114>>,  \* corner
    <<122, 101, 114, 111>>,  \* zero
    <<111, 110, 101>>,  \* one
    <<116, 119, 111>>,  \* two
    <<116, 104, 114, 101, 101>>,  \* three
    <<102, 111, 117, 114>>,  \* four
    <<102, 105, 118, 101>>,  \* five
    <<115, 105, 120>>,  \* six
    <<115, 101, 118, 101, 110>>,  \* seven
    <<101, 105, 103, 104, 116>>,  \* eight
    <<110, 105, 110, 101>>,  \* nine
    <<116, 101, 110>>,  \* ten
    <<104, 117, 110, 100, 114, 101, 100>>,  \* hundred
    <<116, 104, 111, 117, 115, 97, 110, 100>>,  \* thousand
    <<109, 105, 108, 108, 105, 111, 110>>,  \* million
    <<98, 105, 108, 108, 105, 111, 110>>,  \* billion
    <<116, 114, 105, 108, 108, 105, 111, 110>>,  \* trillion
    <<116, 104, 105, 114, 100>>,  \* third
    <<102, 111, 117, 114, 116, 104>>,  \* fourth
    <<102, 105, 102, 116, 104>>,  \* fifth
    <<115, 105, 120, 116, 104>>,  \* sixth
    <<115, 101, 118, 101, 110, 116, 104>>,  \* seventh
    <<101, 105, 103, 104, 116, 104>>,  \* eighth
    <<110, 105, 110, 116, 104>>,  \* ninth
    <<116, 101, 110, 116, 104>>,  \* tenth
    <<102, 105, 110, 97, 108>>,  \* final
    <<112, 114, 101>>,  \* pre
    <<97, 110, 116, 105>>,  \* anti
    <<112, 114, 111>>,  \* pro
    <<110, 111, 110>>,  \* non
    <<117, 110>>,  \* un
    <<114, 101>>,  \* re
    <<111, 118, 101, 114>>,  \* over
    <<117, 110, 100, 101, 114>>,  \* under
    <<111, 117, 116>>,  \* out
    <<105, 110>>,  \* in
    <<97, 117, 116, 111>>,  \* auto
    <<115, 101, 108, 102>>,  \* self
    <<115, 117, 112, 101, 114>>,  \* super
    <<117, 108, 116, 114, 97>>,  \* ultra
    <<109, 101, 103, 97>>,  \* mega
    <<101, 116, 99>>,  \* etc
    <<101, 116, 99, 101, 116, 101, 114, 97>>,  \* etcetera
    <<97, 110, 100>>,  \* and
    <<111, 114>>,  \* or
    <<98, 117, 116>>,  \* but
    <<115, 111>>,  \* so
    <<105, 102>>,  \* if
    <<116, 104, 101, 110>>,  \* then
    <<101, 108, 115, 101>>,  \* else
    <<119, 104, 101, 110>>,  \* when
    <<119, 104, 101, 114, 101>>,  \* where
    <<104, 111, 119>>,  \* how
    <<119, 104, 121>>,  \* why
    <<119, 104, 97, 116>>,  \* what
    <<119, 104, 111>>,  \* who
    <<119, 104, 105, 99, 104>>,  \* which
    <<116, 104, 97, 116>>,  \* that
    <<116, 104, 105, 115>>,  \* this
    <<116, 104, 101, 115, 101>>,  \* these
    <<116, 104, 111, 115, 101>>,  \* those
    <<104, 101, 114, 101>>,  \* here
    <<116, 104, 101, 114, 101>>,  \* there
    <<101, 118, 101, 114, 121, 119, 104, 101, 114, 101>>,  \* everywhere
    <<110, 111, 119, 104, 101, 114, 101>>,  \* nowhere
    <<115, 111, 109, 101, 119, 104, 101, 114, 101>>,  \* somewhere
    <<97, 110, 121, 119, 104, 101, 114, 101>>  \* anywhere
  }

forbidden_patterns ==
  {
    <<114, 115, 115>>,  \* rss
    <<120, 109, 108>>,  \* xml
    <<106, 115, 111, 110>>,  \* json
    <<97, 112, 105>>,  \* api
    <<104, 116, 116, 112>>,  \* http
    <<119, 119, 119>>,  \* www
    <<99, 111, 109>>,  \* com
    <<110, 101, 116>>,  \* net
    <<111, 114, 103>>,  \* org
    <<110, 98, 115, 112>>,  \* nbsp
    <<102, 111, 110, 116>>,  \* font
    <<104, 114, 101, 102>>,  \* href
    <<115, 114, 99>>,  \* src
    <<105, 109, 103>>,  \* img
    <<100, 105, 118>>,  \* div
    <<115, 112, 97, 110>>,  \* span
    <<99, 108, 97, 115, 115>>,  \* class
    <<105, 100>>,  \* id
    <<115, 99, 114, 105, 112, 116>>,  \* script
    <<99, 115, 115>>,  \* css
    <<106, 115>>,  \* js
    <<106, 113, 117, 101, 114, 121>>,  \* jquery
    <<97, 106, 97, 120>>,  \* ajax
    <<104, 116, 109, 108>>,  \* html
    <<104, 116, 109>>,  \* htm
    <<97, 114, 116, 105, 99, 108, 101, 115>>,  \* articles
    <<116, 97, 114, 103, 101, 116>>,  \* target
    <<111, 99>>,  \* oc
    <<102, 101, 101, 100>>,  \* feed
    <<97, 116, 111, 109>>,  \* atom
    <<115, 121, 110, 100, 105, 99, 97, 116, 105, 111, 110>>,  \* syndication
    <<99, 104, 97, 110, 110, 101, 108>>,  \* channel
    <<105, 116, 101, 109>>,  \* item
    <<108, 105, 110, 107>>,  \* link
    <<100, 101, 115, 99, 114, 105, 112, 116, 105, 111, 110>>,  \* description
    <<112, 117, 98, 100, 97, 116, 101>>,  \* pubdate
    <<103, 117, 105, 100>>,  \* guid
    <<99, 97, 116, 101, 103, 111, 114, 121>>,  \* category
    <<101, 110, 99, 108, 111, 115, 117, 114, 101>>,  \* enclosure
    <<105, 111, 115>>,  \* ios
    <<97, 110, 100, 114, 111, 105, 100>>,  \* android
    <<119, 105, 110, 100, 111, 119, 115>>,  \* windows
    <<109, 97, 99>>,  \* mac
    <<108, 105, 110, 117, 120>>  \* linux
  }

forbidden_tokens ==
  {
    <<110, 98, 115, 112>>,  \* nbsp
    <<102, 111, 110, 116>>,  \* font
    <<104, 114, 101, 102>>,  \* href
    <<104, 116, 116, 112, 115>>,  \* https
    <<99, 111, 109>>,  \* com
    <<103, 111, 111, 103, 108, 101>>,  \* google
    <<110, 101, 119, 115>>,  \* news
    <<114, 115, 115>>,  \* rss
    <<120, 109, 108>>,  \* xml
    <<106, 115, 111, 110>>,  \* json
    <<97, 112, 105>>,  \* api
    <<97, 114, 116, 105, 99, 108, 101, 115>>,  \* articles
    <<116, 97, 114, 103, 101, 116>>,  \* target
    <<111, 99>>,  \* oc
    <<102, 101, 101, 100>>,  \* feed
    <<97, 116, 111, 109>>,  \* atom
    <<115, 121, 110, 100, 105, 99, 97, 116, 105, 111, 110>>,  \* syndication
    <<99, 104, 97, 110, 110, 101, 108>>,  \* channel
    <<105, 116, 101, 109>>,  \* item
    <<108, 105, 110, 107>>,  \* link
    <<100, 101, 115, 99, 114, 105, 112, 116, 105, 111, 110>>,  \* description
    <<112, 117, 98, 100, 97, 116, 101>>,  \* pubdate
    <<103, 117, 105, 100>>,  \* guid
    <<99, 97, 116, 101, 103, 111, 114, 121>>,  \* category
    <<101, 110, 99, 108, 111, 115, 117, 114, 101>>,  \* enclosure
    <<119, 119, 119>>,  \* www
    <<104, 116, 116, 112>>  \* http
  }

gate1_exact ==
  {
    <<97, 105>>,  \* ai
    <<114, 115, 115>>,  \* rss
    <<120, 109, 108>>,  \* xml
    <<106, 115, 111, 110>>  \* json
  }

fallback_exact ==
  {
    <<97, 105>>,  \* ai
    <<114, 115, 115>>,  \* rss
    <<120, 109, 108>>,  \* xml
    <<106, 115, 111, 110>>,  \* json
    <<97, 112, 105>>,  \* api
    <<104, 116, 116, 112>>,  \* http
    <<119, 119, 119>>  \* www
  }

----------------------------------------------------------------------------
(* html.unescape (clean.py line 143), as the standard library defines it. *)

\* html.entities.html5, restricted to the named references the model's
\* inputs spell out; each is known with and without its semicolon.
HTML5 ==
  { <<<<97, 109, 112>>, <<38>>>>,            \* amp  -> &
    <<<<97, 109, 112, 59>>, <<38>>>>,        \* amp; -> &
    <<<<108, 116>>, <<60>>>>,                \* lt   -> <
    <<<<108, 116, 59>>, <<60>>>>,            \* lt;  -> <
    <<<<103, 116>>, <<62>>>>,                \* gt   -> >
    <<<<103, 116, 59>>, <<62>>>>,            \* gt;  -> >
    <<<<113, 117, 111, 116>>, <<34>>>>,      \* quot  -> "
    <<<<113, 117, 111, 116, 59>>, <<34>>>>,  \* quot; -> "
    <<<<110, 98, 115, 112>>, <<160>>>>,      \* nbsp  -> U+00A0
    <<<<110, 98, 115, 112, 59>>, <<160>>>> } \* nbsp; -> U+00A0

InHTML5(name) == \E e \in HTML5 : e[1] = name
HTML5Value(name) == (CHOOSE e \in HTML5 : e[1] = name)[2]

\* html._invalid_charrefs for 0x80..0x9f (the Windows-1252 remapping)
Cp1252 ==
  <<8364, 129, 8218, 402, 8222, 8230, 8224, 8225, 710, 8240, 352, 8249, 338, 141, 381, 143, 144, 8216, 8217, 8220, 8221, 8226, 8211, 8212, 732, 8482, 353, 8250, 339, 157, 382, 376>>

\* html._invalid_codepoints
InvalidCodepoint(n) ==
  \/ n \in 1..8 \/ n = 11 \/ n \in 14..31 \/ n \in 127..159
  \/ n \in 64976..65007
  \/ (n >= 65534 /\ n <= 1114111 /\ (n % 65536) \in {65534, 65535})

\* int(digits, base), saturated just above the largest code point
RECURSIVE IntVal(_, _, _)
IntVal(digits, base, acc) ==
  IF Len(digits) = 0 THEN acc
  ELSE LET c == digits[1]
           d == IF IsAsciiDigit(c) THEN c - 48
                ELSE IF c \in 65..70 THEN c - 55 ELSE c - 87
           n == acc * base + d
       IN IntVal(Tail(digits), base, IF n > 1114112 THEN 1114112 ELSE n)

\* _replace_charref, numeric branch
NumericCharref(num) ==
  IF num = 0 THEN <<65533>>
  ELSE IF num = 13 THEN <<13>>
  ELSE IF num \in 128..159 THEN <<Cp1252[num - 127]>>
  ELSE IF num \in 55296..57343 \/ num > 1114111 THEN <<65533>>
  ELSE IF InvalidCodepoint(num) THEN <<>>
  ELSE <<num>>

\* _replace_charref, named branch: the name itself, else its longest prefix
\* of at least two characters that is a known reference, else unchanged
NamedCharref(s) ==
  IF InHTML5(s) THEN HTML5Value(s)
  ELSE LET xs == {x \in 2..(Len(s) - 1) : InHTML5(SubSeq(s, 1, x))}
       IN IF xs = {} THEN <<38>> \o s
          ELSE LET x == CHOOSE y \in xs : \A z \in xs : z <= y
               IN HTML5Value(SubSeq(s, 1, x)) \o SubSeq(s, x + 1, Len(s))

MaxNameLen == 32

\* One match of _charref at s[i] = "&": <<index past the match, replacement>>,
\* or <<0, <<>>>> when none of the three alternatives matches.
Charref(s, i) ==
  LET semi(e) == IF e <= Len(s) /\ s[e] = 59 THEN e + 1 ELSE e
      dEnd == SpanWhile("[0-9]", s, i + 2)
      xEnd == SpanWhile("[0-9a-fA-F]", s, i + 3)
      run == SpanWhile("[^\\t\\n\\f <&#;]", s, i + 1)
      nEnd == IF run - (i + 1) > MaxNameLen THEN i + 1 + MaxNameLen ELSE run
  IN IF i + 1 <= Len(s) /\ s[i + 1] = 35 /\ dEnd > i + 2
       THEN <<semi(dEnd), NumericCharref(IntVal(SubSeq(s, i + 2, dEnd - 1), 10, 0))>>
     ELSE IF i + 2 <= Len(s) /\ s[i + 1] = 35 /\ s[i + 2] \in {88, 120} /\ xEnd > i + 3
       THEN <<semi(xEnd), NumericCharref(IntVal(SubSeq(s, i + 3, xEnd - 1), 16, 0))>>
     ELSE IF nEnd > i + 1
       THEN <<semi(nEnd), NamedCharref(SubSeq(s, i + 1, semi(nEnd) - 1))>>
     ELSE <<0, <<>>>>

RECURSIVE UnescapeFrom(_, _)
UnescapeFrom(s, i) ==
  IF i > Len(s) THEN <<>>
  ELSE IF s[i] # 38 THEN <<s[i]>> \o UnescapeFrom(s, i + 1)
  ELSE LET m == Charref(s, i)
       IN IF m[1] = 0 THEN <<s[i]>> \o UnescapeFrom(s, i + 1)
          ELSE m[2] \o UnescapeFrom(s, m[1])

\* the text left as it is, no reference decoded
Unescape_None(s) == s

\* html.unescape(s)
Unescape(s) == UnescapeFrom(s, 1)

----------------------------------------------------------------------------
(* The patterns of normalize_for_topics (clean.py lines 146-161).  Each     *)
(* matcher gives the index just past the match that starts at i, 0 if none. *)

\* <[^>]+>
TagMatch(s, i) ==
  IF s[i] # 60 THEN 0
  ELSE LET e == SpanWhile("[^>]", s, i + 1)
       IN IF e > i + 1 /\ e <= Len(s) THEN e + 1 ELSE 0

\* &[a-zA-Z0-9#]+;
EntityMatch(s, i) ==
  IF s[i] # 38 THEN 0
  ELSE LET e == SpanWhile("[a-zA-Z0-9#]", s, i + 1)
       IN IF e > i + 1 /\ e <= Len(s) /\ s[e] = 59 THEN e + 1 ELSE 0

\* https?://[^\s]+
UrlMatch(s, i) ==
  LET p == IF StartsAt(s, i, <<104, 116, 116, 112, 115, 58, 47, 47>>) THEN i + 8
           ELSE IF StartsAt(s, i, <<104, 116, 116, 112, 58, 47, 47>>) THEN i + 7
           ELSE 0
      e == SpanWhile("[^\\s]", s, p)
  IN IF p > 0 /\ e > p THEN e ELSE 0

\* www\.[^\s]+
WwwMatch(s, i) ==
  LET p == IF StartsAt(s, i, <<119, 119, 119, 46>>) THEN i + 4 ELSE 0
      e == SpanWhile("[^\\s]", s, p)
  IN IF p > 0 /\ e > p THEN e ELSE 0

\* [a-zA-Z0-9._%+-]+@[a-zA-Z0-9.-]+\.[a-zA-Z]{2,}
\* The local part is the whole run up to "@"; the domain run gives back
\* characters until a "." followed by two letters is found, so the last
\* such "." of the run is the one matched.
EmailMatch(s, i) ==
  LET at == SpanWhile("[a-zA-Z0-9._%+-]", s, i)
      dEnd == SpanWhile("[a-zA-Z0-9.-]", s, at + 1)
      dots == {q \in (at + 2)..(dEnd - 1) :
                 /\ s[q] = 46
                 /\ SpanWhile("[a-zA-Z]", s, q + 1) >= q + 3}
  IN IF at > i /\ at <= Len(s) /\ s[at] = 64 /\ dots # {}
       THEN SpanWhile("[a-zA-Z]", s, (CHOOSE q \in dots : \A r \in dots : r <= q) + 1)
     ELSE 0

\* re.sub(r'[^\w\s가-힣]', ' ', text)
ReplaceSymbols(s) ==
  [i \in 1..Len(s) |->
     IF IsWord(s[i]) \/ IsSpace(s[i]) \/ IsHangul(s[i]) THEN s[i] ELSE 32]

\* \b\d+\b: a whole run of digits with no word character on either side
DigitTokenMatch(s, i) ==
  LET e == SpanWhile("\\d", s, i)
  IN IF /\ e > i
        /\ (i = 1 \/ ~IsWord(s[i - 1]))
        /\ (e > Len(s) \/ ~IsWord(s[e]))
       THEN e ELSE 0

\* \s+
SpaceRunMatch(s, i) ==
  LET e == SpanWhile("\\s", s, i) IN IF e > i THEN e ELSE 0

\* The matcher of each pattern of lines 146-161
MatchEnd(pattern, s, i) ==
  CASE pattern = "<[^>]+>" -> TagMatch(s, i)
    [] pattern = "&[a-zA-Z0-9#]+;" -> EntityMatch(s, i)
    [] pattern = "https?://[^\\s]+" -> UrlMatch(s, i)
    [] pattern = "www\\.[^\\s]+" -> WwwMatch(s, i)
    [] pattern = "[a-zA-Z0-9._%+-]+@[a-zA-Z0-9.-]+\\.[a-zA-Z]{2,}" -> EmailMatch(s, i)
    [] pattern = "\\b\\d+\\b" -> DigitTokenMatch(s, i)
    [] pattern = "\\s+" -> SpaceRunMatch(s, i)

\* re.sub(pattern, repl, s) from index i on: the leftmost match is replaced
\* and the scan goes on after it; none of the patterns matches the empty
\* string.
RECURSIVE ReSub(_, _, _, _)
ReSub(pattern, repl, s, i) ==
  IF i > Len(s) THEN <<>>
  ELSE LET e == MatchEnd(pattern, s, i)
       IN IF e > i THEN repl \o ReSub(pattern, repl, s, e)
          ELSE <<s[i]>> \o ReSub(pattern, repl, s, i + 1)
----------------------------------------------------------------------------
(* normalize_for_topics (clean.py lines 126-220) *)

\* How a call ends: a return value or a propagated exception.
Returned(s) == [exc |-> "none", str |-> s, topics |-> <<>>]
ReturnedList(ts) == [exc |-> "none", str |-> <<>>, topics |-> ts]
Raised(e) == [exc |-> e, str |-> <<>>, topics |-> <<>>]

\* re.match(r'^[가-힣a-zA-Z]+$', token), for a token without a line break
LettersOnly(token) ==
  Len(token) > 0 /\ \A i \in 1..Len(token) : IsHangulOrLatin(token[i])

\* the loop body without the check of line 172
KeepToken_NoLength(token) ==
  /\ ~IsDigitStr(token)
  /\ ~HasDigit(token)
  /\ token \notin STOPWORDS
  /\ token \notin GARBAGE_TOKENS
  /\ Lower(token) \notin forbidden_patterns
  /\ LettersOnly(token)

\* the loop body without the check of line 188
KeepToken_NoGarbage(token) ==
  /\ ~(Len(token) <= 1)
  /\ ~IsDigitStr(token)
  /\ ~HasDigit(token)
  /\ token \notin STOPWORDS
  /\ Lower(token) \notin forbidden_patterns
  /\ LettersOnly(token)

\* The body of the loop at lines 170-208: TRUE when the token is appended.
KeepToken(token) ==
  /\ ~(Len(token) <= 1)
  /\ ~IsDigitStr(token)
  /\ ~HasDigit(token)
  /\ token \notin STOPWORDS
  /\ token \notin GARBAGE_TOKENS
  /\ Lower(token) \notin forbidden_patterns
  /\ LettersOnly(token)

\* lines 143-161: the text once entities, tags, URLs, addresses, symbols and
\* bare numbers are gone and whitespace is collapsed.  Read from the bottom:
\* each step works on the value of the step below it.
StripMarkup(s) ==
  CHOOSE t10 \in
    {Strip(t9) : t9 \in
    {ReSub("\\s+", <<32>>, t8, 1) : t8 \in
    {ReSub("\\b\\d+\\b", <<>>, t7, 1) : t7 \in
    {ReplaceSymbols(t6) : t6 \in
    {ReSub("[a-zA-Z0-9._%+-]+@[a-zA-Z0-9.-]+\\.[a-zA-Z]{2,}", <<>>, t5, 1) : t5 \in
    {ReSub("www\\.[^\\s]+", <<>>, t4, 1) : t4 \in
    {ReSub("https?://[^\\s]+", <<>>, t3, 1) : t3 \in
    {ReSub("&[a-zA-Z0-9#]+;", <<>>, t2, 1) : t2 \in
    {ReSub("<[^>]+>", <<>>, t1, 1) : t1 \in
    {Unescape(s)}}}}}}}}}} : TRUE

\* the split without the lowercasing
Tokenize_NoLower(s) == Split(s)

\* line 166
Tokenize(s) == Split(Lower(s))

\* the tokens joined with nothing between them
JoinTokens_NoSpace(tokens) == Join(<<>>, tokens)

\* line 210
JoinTokens(tokens) == Join(<<32>>, tokens)

\* lines 139-220 for a non-empty str
CleanText(s) ==
  CHOOSE joined \in
    {JoinTokens(filtered_tokens) : filtered_tokens \in
    {Select(tokens, [i \in 1..Len(tokens) |-> KeepToken(tokens[i])]) : tokens \in
    {Tokenize(stripped) : stripped \in
    {StripMarkup(s)}}}} : TRUE

\* the body without the guard of lines 136-137
normalize_for_topics_NoGuard(v) ==
  IF IsStr(v) THEN Returned(CleanText(v.val)) ELSE Raised("TypeError")

\* The guard of lines 136-137, then the body.  The body applies str
\* operations to its argument, which raise TypeError on anything else.
normalize_for_topics(v) ==
  IF ~Truthy(v) \/ ~IsStr(v) THEN Returned(<<>>)
  ELSE Returned(CleanText(v.val))

----------------------------------------------------------------------------
(* TfidfVectorizer as top_topics configures it (topic_extractor.py lines   *)
(* 518-524) and uses it (lines 528-544): ngram_range (1, 2), lowercase,    *)
(* stop_words STOPWORDS | GARBAGE_TOKENS, smooth idf, l2 norm.             *)

\* line 508
combined_stopwords == STOPWORDS \cup GARBAGE_TOKENS

\* line 513: min(3, max(1, corpus_size // 10))
Min(a, b) == IF a < b THEN a ELSE b
Max(a, b) == IF a > b THEN a ELSE b
\* a threshold that ignores the corpus size
min_df_Fixed(corpus_size) == 1
min_df(corpus_size) == Min(3, Max(1, corpus_size \div 10))

\* line 514: max_df = 0.8, as the fraction MaxDfNum / MaxDfDen
\* the corpus sizes looked at
MaxCorpusSize == 40

MaxDfNum == 8
MaxDfDen == 10

\* the pattern with {1,} for {2,}
TokenMatch_OneLetter(s, i) ==
  LET e == SpanWhile("[hangul a-zA-Z]", s, i)
  IN IF /\ e >= i + 1
        /\ (i = 1 \/ ~IsWord(s[i - 1]))
        /\ (e > Len(s) \/ ~IsWord(s[e]))
       THEN e ELSE 0

\* token_pattern (?u)\b[가-힣a-zA-Z]{2,}\b at s[i]: a run of two or more
\* Hangul or Latin letters with no word character on either side
TokenMatch(s, i) ==
  LET e == SpanWhile("[hangul a-zA-Z]", s, i)
  IN IF /\ e >= i + 2
        /\ (i = 1 \/ ~IsWord(s[i - 1]))
        /\ (e > Len(s) \/ ~IsWord(s[e]))
       THEN e ELSE 0

\* token_pattern.findall(s)
RECURSIVE FindTokens(_, _)
FindTokens(s, i) ==
  IF i > Len(s) THEN <<>>
  ELSE LET e == TokenMatch(s, i)
       IN IF e > i THEN <<SubSeq(s, i, e - 1)>> \o FindTokens(s, e)
          ELSE FindTokens(s, i + 1)

NotStopword(w) == w \notin combined_stopwords

\* The analyzer on one document: lowercase, tokenize, drop the stop words,
\* then the unigrams followed by the bigrams of what is left.
Analyze(doc) ==
  LET found == FindTokens(Lower(doc), 1)
      tokens == Select(found, [i \in 1..Len(found) |-> NotStopword(found[i])])
  IN tokens \o [i \in 1..(Len(tokens) - 1) |-> tokens[i] \o <<32>> \o tokens[i + 1]]

\* term frequency: occurrences of term in one analysed document
Count(term, terms) == Cardinality({i \in 1..Len(terms) : terms[i] = term})

\* document frequency over the analysed documents
DocFreq(term, rows) == Cardinality({d \in 1..Len(rows) : term \in Range(rows[d])})

AllTerms(rows) == UNION {Range(rows[d]) : d \in 1..Len(rows)}

\* the pruning without max_df
DfKept_NoMax(df, n) == df >= min_df(n)

\* What the pruning keeps: min_df <= df <= max_df * n
DfKept(df, n) ==
  /\ df >= min_df(n)
  /\ MaxDfDen * df <= MaxDfNum * n

\* The vocabulary after pruning
Vocabulary(rows) == {t \in AllTerms(rows) : DfKept(DocFreq(t, rows), Len(rows))}

\* The analysed documents of a corp of str
Rows(corp) == [i \in 1..Len(corp) |-> Analyze(corp[i].val)]

\* What makes fit_transform raise: a document that is not a str, an empty
\* vocabulary, max_df * n below min_df, or no term left after pruning.
VectorizerError(corp) ==
  IF \E i \in 1..Len(corp) : ~IsStr(corp[i]) THEN "AttributeError"
  ELSE LET rows == Rows(corp)
       IN IF AllTerms(rows) = {} THEN "ValueError"
          ELSE IF MaxDfNum * Len(rows) < MaxDfDen * min_df(Len(rows)) THEN "ValueError"
          ELSE IF Vocabulary(rows) = {} THEN "ValueError"
          ELSE "none"

\* 1000 * ln(m), m = 1..12, rounded
LnMilli == <<0, 693, 1099, 1386, 1609, 1792, 1946, 2079, 2197, 2303, 2398, 2485>>

\* smooth idf, in thousandths: ln((1 + n) / (1 + df)) + 1
IdfMilli(n, df) == LnMilli[1 + n] - LnMilli[1 + df] + 1000

\* floor of the square root
RECURSIVE ISqrtFrom(_, _)
ISqrtFrom(n, x) ==
  LET y == (x + n \div x) \div 2
  IN IF y >= x THEN x ELSE ISqrtFrom(n, y)
ISqrt(n) == IF n = 0 THEN 0 ELSE ISqrtFrom(n, n)

\* the sum of f[x] over the x of S
RECURSIVE SumFn(_, _)
SumFn(f, S) ==
  IF S = {} THEN 0
  ELSE LET x == CHOOSE y \in S : TRUE IN f[x] + SumFn(f, S \ {x})

\* line 540, in fixed point: for every vocabulary term the column sum of the
\* l2-normalised tf-idf matrix, in thousandths.  The mean score is this sum
\* over the number of documents, so both rank the terms alike.
Scores(rows) ==
  LET n == Len(rows)
      vocab == Vocabulary(rows)
      w == [d \in 1..n |->
              [t \in vocab |-> Count(t, rows[d]) * IdfMilli(n, DocFreq(t, rows))]]
      norm == [d \in 1..n |-> ISqrt(SumFn([t \in vocab |-> w[d][t] * w[d][t]], vocab))]
  IN [t \in vocab |->
        SumFn([d \in 1..n |-> IF w[d][t] = 0 THEN 0
                               ELSE (w[d][t] * 1000) \div norm[d]], 1..n)]

\* The fixed-point sums are within ScoreTol of the floating-point ones; two
\* terms closer than that, equal scores included, may be ranked either way
\* (np.argsort promises no order among equal scores).
ScoreTol(n) == 4 * n

\* the first m terms of an order that ignores the scores
RECURSIVE TopLists_Unranked(_, _, _, _)
TopLists_Unranked(scores, tol, V, m) ==
  IF m <= 0 \/ V = {} THEN {<<>>}
  ELSE UNION { {<<t>> \o rest : rest \in TopLists_Unranked(scores, tol, V \ {t}, m - 1)} :
               t \in V }

\* lines 543-544: the lists np.argsort(mean_scores)[::-1][:m] can give,
\* every vocabulary term having a positive score
RECURSIVE TopLists(_, _, _, _)
TopLists(scores, tol, V, m) ==
  IF m <= 0 \/ V = {} THEN {<<>>}
  ELSE UNION { {<<t>> \o rest : rest \in TopLists(scores, tol, V \ {t}, m - 1)} :
               t \in {u \in V : \A x \in V : scores[u] + tol >= scores[x]} }

\* str < str: by code point, a proper prefix first
LexLess(a, b) ==
  \E i \in 1..(Min(Len(a), Len(b)) + 1) :
    /\ \A j \in 1..(i - 1) : a[j] = b[j]
    /\ IF i > Len(a) THEN i <= Len(b)
       ELSE i <= Len(b) /\ a[i] < b[i]

\* line 529: get_feature_names_out(), the vocabulary in sorted order
RECURSIVE FeatureNames(_)
FeatureNames(V) ==
  IF V = {} THEN <<>>
  ELSE LET first == CHOOSE x \in V : \A y \in V : x = y \/ LexLess(x, y)
       IN <<first>> \o FeatureNames(V \ {first})

\* line 540: the scores as an array, one entry per feature name
RECURSIVE MeanScores(_, _)
MeanScores(scores, names) ==
  IF Len(names) = 0 THEN <<>>
  ELSE <<scores[names[1]]>> \o MeanScores(scores, Tail(names))

\* Where a sort that orders equal scores by index puts index i of n: the
\* indices are taken in steps of tie.stride from tie.shift on, forwards or
\* backwards.  Stride 1, shift 0, backwards is a stable sort reversed by
\* [::-1].
TieKey(i, n, tie) ==
  LET r == ((i - 1) * tie.stride + tie.shift) % n
  IN IF tie.reversed THEN n - 1 - r ELSE r

\* line 543: the index np.argsort(mean_scores)[::-1] gives next among those
\* left, for a sort that orders equal scores by TieKey
BestIndex(mean_scores, tol, left, tie) ==
  CHOOSE u \in left :
    /\ \A x \in left : mean_scores[u] + tol >= mean_scores[x]
    /\ \A x \in left :
         (\A y \in left : mean_scores[x] + tol >= mean_scores[y])
           => TieKey(u, Len(mean_scores), tie) <= TieKey(x, Len(mean_scores), tie)

\* lines 543-544 for such a sort: the feature names of the first m indices
RECURSIVE NamesBy(_, _, _, _, _, _)
NamesBy(mean_scores, feature_names, tol, left, m, tie) ==
  IF m <= 0 \/ left = {} THEN <<>>
  ELSE CHOOSE names \in
         UNION {{<<feature_names[i]>> \o
                   NamesBy(mean_scores, feature_names, tol, rest, m - 1, tie) :
                   rest \in {left \ {i}}} :
                i \in {BestIndex(mean_scores, tol, left, tie)}} : TRUE

\* lines 528-544 for such a sort.  Read from the bottom.
IndexedCandidates(corp, m, tie) ==
  CHOOSE cands \in
    UNION {UNION {
      {NamesBy(mean_scores, feature_names, ScoreTol(Len(corp)),
               1..Len(feature_names), m, tie) :
         mean_scores \in {MeanScores(scores, feature_names)}} :
      feature_names \in {FeatureNames(DOMAIN scores)}} :
      scores \in {Scores(Rows(corp))}} : TRUE
----------------------------------------------------------------------------
(* TopicExtractor._fallback_keyword_extraction (lines 615-671) *)

\* lines 635-642
FallbackKeep(token) ==
  /\ Len(token) > 1
  /\ token \notin STOPWORDS
  /\ token \notin GARBAGE_TOKENS
  /\ ~IsDigitStr(token)
  /\ ~HasDigit(token)

\* lines 630-643 over a corp whose truthy elements are all str
RECURSIVE AllWords(_)
AllWords(corp) ==
  IF Len(corp) = 0 THEN <<>>
  ELSE (IF Truthy(corp[1])
          THEN LET words == Split(Lower(corp[1].val))
               IN Select(words, [i \in 1..Len(words) |-> FallbackKeep(words[i])])
          ELSE <<>>) \o AllWords(Tail(corp))

\* the words as they come, repetitions kept
Distinct_Keep(ws) == ws

\* The distinct words in order of first occurrence (the Counter's key order)
RECURSIVE Distinct(_)
Distinct(ws) ==
  IF Len(ws) = 0 THEN <<>>
  ELSE LET head == Distinct(SubSeq(ws, 1, Len(ws) - 1))
           last == ws[Len(ws)]
       IN IF last \in Range(head) THEN head ELSE Append(head, last)

\* Counter.most_common(n): by count, largest first; equal counts keep the
\* order of first occurrence
RECURSIVE MostCommonFrom(_, _, _)
MostCommonFrom(keys, ws, n) ==
  IF n <= 0 \/ Len(keys) = 0 THEN <<>>
  ELSE LET best == CHOOSE i \in 1..Len(keys) :
                     /\ \A j \in 1..Len(keys) : Count(keys[j], ws) <= Count(keys[i], ws)
                     /\ \A j \in 1..(i - 1) : Count(keys[j], ws) < Count(keys[i], ws)
           others == [j \in 1..(Len(keys) - 1) |-> IF j < best THEN keys[j] ELSE keys[j + 1]]
       IN <<keys[best]>> \o MostCommonFrom(others, ws, n - 1)

\* the first n keys in the Counter's key order, not ranked by count
MostCommon_Unranked(ws, n) == Take(Distinct(ws), n)

MostCommon(ws, n) == MostCommonFrom(Distinct(ws), ws, n)

\* lines 659-661
FallbackFinalKeep(keyword) ==
  /\ Len(keyword) > 1
  /\ keyword \notin fallback_exact
  /\ ~HasDigit(keyword)

\* The whole method.  text.lower() on a truthy element that is not a str
\* raises AttributeError, which the except of line 669 turns into [].
_fallback_keyword_extraction(corp, kk) ==
  IF \E i \in 1..Len(corp) : Truthy(corp[i]) /\ ~IsStr(corp[i]) THEN <<>>
  ELSE LET all_words == AllWords(corp)
           top_words == MostCommon(all_words, kk * 2)
       IN IF Len(all_words) = 0 THEN <<>>
          ELSE Take(Select(top_words, [i \in 1..Len(top_words) |->
                                          FallbackFinalKeep(top_words[i])]), kk)

\* lines 631-634: text.lower() on a truthy element that is not a str
FallbackError(corp) == \E i \in 1..Len(corp) : Truthy(corp[i]) /\ ~IsStr(corp[i])

\* the except clause letting the exception through
OnFallbackError_Reraise(corp) == Raised("AttributeError")

\* lines 669-671: except Exception: return []
OnFallbackError(corp) == ReturnedList(<<>>)

\* How a call of the method ends
FallbackCall(corp, kk) ==
  IF FallbackError(corp) THEN OnFallbackError(corp)
  ELSE ReturnedList(_fallback_keyword_extraction(corp, kk))

----------------------------------------------------------------------------
(* TopicExtractor.doc_topics (lines 673-705) *)

\* lines 691-694: the condition of the comprehension
DocKeep(token) == Len(token) > 1 /\ token \notin combined_stopwords

\* text.lower() raises AttributeError for a truthy value that is not a str
doc_topics(v, n) ==
  IF ~Truthy(v) THEN ReturnedList(<<>>)
  ELSE IF ~IsStr(v) THEN Raised("AttributeError")
  ELSE LET tokens == Split(Lower(v.val))
           filtered_tokens == Select(tokens, [i \in 1..Len(tokens) |-> DocKeep(tokens[i])])
       IN ReturnedList(MostCommon(filtered_tokens, n))

----------------------------------------------------------------------------
(* The module-level tables as objects (clean.py lines 9-124) *)

\* the two sets as the import of clean.py leaves them
ImportedTables == [STOPWORDS |-> STOPWORDS, GARBAGE_TOKENS |-> GARBAGE_TOKENS]

\* the union written in place: STOPWORDS |= GARBAGE_TOKENS
TablesAfterUnion_InPlace(tbl) ==
  [tbl EXCEPT !.STOPWORDS = tbl.STOPWORDS \cup tbl.GARBAGE_TOKENS]

\* topic_extractor.py lines 508 and 690: STOPWORDS | GARBAGE_TOKENS builds a
\* new set and leaves both operands as they are.  Every other use of the
\* tables is a membership test (clean.py lines 184 and 188,
\* topic_extractor.py lines 638-639).
TablesAfterUnion(tbl) == tbl

----------------------------------------------------------------------------
(* TopicExtractor.top_topics (lines 480-613) *)

\* line 555: not any(garbage in topic.lower() for garbage in GARBAGE_TOKENS),
\* that is, no substring of the lowercased topic is a garbage token
NoGarbageSubstring(topic) ==
  LET t == Lower(topic)
  IN \A i \in 1..Len(t) : \A j \in i..Len(t) : SubSeq(t, i, j) \notin GARBAGE_TOKENS

\* gate 1 matching the garbage tokens against whole words
Gate1_WholeWord(topic) ==
  /\ \A token \in Range(Split(Lower(topic))) : token \notin GARBAGE_TOKENS
  /\ Len(topic) > 1
  /\ ~IsDigitStr(topic)
  /\ Lower(topic) \notin gate1_exact
  /\ ~HasDigit(topic)

\* lines 553-565: quality gate 1
Gate1(topic) ==
  /\ NoGarbageSubstring(topic)
  /\ Len(topic) > 1
  /\ ~IsDigitStr(topic)
  /\ Lower(topic) \notin gate1_exact
  /\ ~HasDigit(topic)

\* lines 549-565: the loop of gate 1 over the candidates
filtered(cands) == Select(cands, [i \in 1..Len(cands) |-> Gate1(cands[i])])

\* gate 2 comparing the whole topic with the list instead of its words
Gate2_WholeTopic(topic) == Lower(topic) \notin forbidden_tokens

\* lines 583-595: quality gate 2
Gate2(topic) == \A token \in Range(Split(Lower(topic))) : token \notin forbidden_tokens

Outcome(res, p, cands, g1, g2) ==
  [result |-> res, path |-> p, top_topics_list |-> cands,
   filtered_topics |-> g1, final_filtered_topics |-> g2]

\* lines 539-608 without the test of line 598
Statistical_NoBreaker(corp, kk, cands) ==
  LET g1 == filtered(cands)
      final_topics == Take(g1, kk)
      g2 == Select(final_topics, [i \in 1..Len(final_topics) |-> Gate2(final_topics[i])])
  IN Outcome(ReturnedList(g2), "statistical", cands, g1, g2)

\* gate 2 run on every gate-1 survivor, the cut to k coming last
Statistical_CutLast(corp, kk, cands) ==
  LET g1 == filtered(cands)
      passed == Select(g1, [i \in 1..Len(g1) |-> Gate2(g1[i])])
      g2 == Take(passed, kk)
  IN IF Len(g2) < kk \div 2
       THEN Outcome(ReturnedList(_fallback_keyword_extraction(corp, kk)),
                    "fallback_quality", cands, g1, g2)
       ELSE Outcome(ReturnedList(g2), "statistical", cands, g1, g2)

\* the test of line 598 with k // 2 rounded up
Statistical_RoundUp(corp, kk, cands) ==
  LET g1 == filtered(cands)
      final_topics == Take(g1, kk)
      g2 == Select(final_topics, [i \in 1..Len(final_topics) |-> Gate2(final_topics[i])])
  IN IF Len(g2) < (kk + 1) \div 2
       THEN Outcome(ReturnedList(_fallback_keyword_extraction(corp, kk)),
                    "fallback_quality", cands, g1, g2)
       ELSE Outcome(ReturnedList(g2), "statistical", cands, g1, g2)

\* lines 539-608, once the candidates are ranked
Statistical(corp, kk, cands) ==
  LET g1 == filtered(cands)
      final_topics == Take(g1, kk)
      g2 == Select(final_topics, [i \in 1..Len(final_topics) |-> Gate2(final_topics[i])])
  IN IF Len(g2) < kk \div 2
       THEN Outcome(ReturnedList(_fallback_keyword_extraction(corp, kk)),
                    "fallback_quality", cands, g1, g2)
       ELSE Outcome(ReturnedList(g2), "statistical", cands, g1, g2)

\* lines 504-505: text[:100] for the first three elements, outside the try
DebugSampleRaises(corp) ==
  \E i \in 1..Min(3, Len(corp)) : ~IsStr(corp[i])

\* the except clause letting the exception through
OnVectorizerError_Reraise(corp, kk) ==
  Outcome(Raised(VectorizerError(corp)), "raised", <<>>, <<>>, <<>>)

\* lines 610-613: any exception of the try block gives the fallback's result
OnVectorizerError(corp, kk) ==
  Outcome(ReturnedList(_fallback_keyword_extraction(corp, kk)),
          "fallback_exception", <<>>, <<>>, <<>>)

\* the method without the test of lines 496-498
top_topics_NoEmptyCheck(corp, kk) ==
  IF DebugSampleRaises(corp)
    THEN {Outcome(Raised("TypeError"), "raised", <<>>, <<>>, <<>>)}
  ELSE IF VectorizerError(corp) # "none"
    THEN {OnVectorizerError(corp, kk)}
  ELSE LET rows == Rows(corp)
           scores == Scores(rows)
       IN {Statistical(corp, kk, cands) :
             cands \in TopLists(scores, ScoreTol(Len(rows)), DOMAIN scores, kk * 3)}

\* Every way one call can end.  (With this vectorizer an empty vocabulary
\* raises, so the return of line 537 is never reached.)
top_topics(corp, kk) ==
  IF Len(corp) = 0
    THEN {Outcome(ReturnedList(<<>>), "empty_corpus", <<>>, <<>>, <<>>)}
  ELSE IF DebugSampleRaises(corp)
    THEN {Outcome(Raised("TypeError"), "raised", <<>>, <<>>, <<>>)}
  ELSE IF VectorizerError(corp) # "none"
    THEN {OnVectorizerError(corp, kk)}
  ELSE LET rows == Rows(corp)
           scores == Scores(rows)
       IN {Statistical(corp, kk, cands) :
             cands \in TopLists(scores, ScoreTol(Len(rows)), DOMAIN scores, kk * 3)}

\* top_topics when np.argsort orders equal scores by TieKey: one outcome
top_topics_indexed(corp, kk, tie) ==
  IF Len(corp) = 0
    THEN Outcome(ReturnedList(<<>>), "empty_corpus", <<>>, <<>>, <<>>)
  ELSE IF DebugSampleRaises(corp)
    THEN Outcome(Raised("TypeError"), "raised", <<>>, <<>>, <<>>)
  ELSE IF VectorizerError(corp) # "none"
    THEN OnVectorizerError(corp, kk)
  ELSE CHOOSE o \in
         {Statistical(corp, kk, cands) :
            cands \in {IndexedCandidates(corp, kk * 3, tie)}} : TRUE

----------------------------------------------------------------------------
(* Calls running at the same time on one TopicExtractor.  A frame holds the *)
(* arguments and local variables of one call; a vectorizer is an object a  *)
(* frame or the instance refers to, known by the feature names it has      *)
(* learned (<<>> before fit_transform).                                    *)

Threads == {1, 2}

\* the holder is an attribute of the instance: self.vectorizer = ...
VectorizerHolder_Instance(t) == 0

\* line 518: "vectorizer = TfidfVectorizer(...)" binds a local variable of
\* the frame of thread t; holder 0 stands for an attribute of the instance
VectorizerHolder(t) == t

Frame(c) ==
  [op |-> c.op, text |-> c.text, corpus |-> c.corpus, k |-> c.k,
   pc |-> "start", mean_scores |-> <<>>, result |-> ReturnedList(<<>>)]

\* lines 496-505: the returns and the exception before the vectorizer is built
EndsBeforeVectorizer(f) == Len(f.corpus) = 0 \/ DebugSampleRaises(f.corpus)

ResultBeforeVectorizer(f) ==
  IF Len(f.corpus) = 0 THEN ReturnedList(<<>>) ELSE Raised("TypeError")

\* lines 529-608 of a frame whose fit_transform succeeded, reading the
\* feature names off the vectorizer: an unfitted vectorizer raises
\* NotFittedError and an index past the names raises IndexError, both inside
\* the try block
RankResults(f, feature_names) ==
  IF Len(feature_names) = 0 THEN {OnVectorizerError(f.corpus, f.k).result}
  ELSE {IF \E j \in 1..Len(top_indices) : top_indices[j] > Len(feature_names)
          THEN OnVectorizerError(f.corpus, f.k).result
          ELSE Statistical(f.corpus, f.k,
                           [j \in 1..Len(top_indices) |->
                              feature_names[top_indices[j]]]).result :
          top_indices \in TopLists(f.mean_scores, ScoreTol(Len(f.corpus)),
                                   1..Len(f.mean_scores), f.k * 3)}

\* lines 528-540: <<the feature names the vectorizer learns, the column
\* scores of the matrix fit_transform returns>>
Fitted(corp) ==
  CHOOSE fitted \in
    UNION {{<<names, MeanScores(scores, names)>> :
              names \in {FeatureNames(DOMAIN scores)}} :
           scores \in {Scores(Rows(corp))}} : TRUE

\* the results of the frame's call when it runs alone
AloneResults(f) ==
  IF f.op = "normalize_for_topics" THEN {normalize_for_topics(f.text)}
  ELSE {o.result : o \in top_topics(f.corpus, f.k)}
----------------------------------------------------------------------------
(* Inputs *)

MaxPieces == 3
MaxDocs == 2
MaxK == 2
MaxPasses == 2
MaxCalls == 2

\* Fragments the raw texts are put together from
Pieces ==
  {
    <<32>>,  \* ' '
    <<97, 105>>,  \* 'ai'
    <<116, 104, 101>>,  \* 'the'
    <<115, 112>>,  \* 'sp'
    <<110, 98>>,  \* 'nb'
    <<105, 111, 115>>,  \* 'ios'
    <<44592, 49696>>,  \* '기술'
    <<65, 73>>,  \* 'AI'
    <<55>>,  \* '7'
    <<95>>,  \* '_'
    <<120>>,  \* 'x'
    <<60, 98, 62>>,  \* '<b>'
    <<38, 97, 109, 112, 59>>,  \* '&amp;'
    <<119, 119, 119, 46>>,  \* 'www.'
    <<64, 97, 46, 105, 111>>,  \* '@a.io'
    <<38, 35, 54, 53, 59>>  \* '&#65;'
  }

\* Documents the corpora are put together from
DocPool ==
  {
    PyStr(<<110, 98, 115, 112, 32, 104, 114, 101, 102, 32, 119, 119, 119>>),  \* 'nbsp href www'
    PyStr(<<97, 32, 98, 32, 99>>),  \* 'a b c'
    PyStr(<<65, 73, 32, 109, 111, 100, 101, 108>>),  \* 'AI model'
    PyStr(<<102, 101, 101, 100>>),  \* 'feed'
    PyStr(<<105, 111, 115>>),  \* 'ios'
    PyStr(<<44592, 49696, 32, 99, 43, 43, 32, 52, 50>>),  \* '기술 c++ 42'
    PyStr(<<114, 115, 115, 32, 116, 111, 112, 105, 99>>),  \* 'rss topic'
    PyStr(<<99, 111, 109, 112, 117, 116, 101, 114, 32, 102, 101, 101, 100, 32,
            102, 101, 101, 100>>),  \* 'computer feed feed'
    PyStr(<<32, 32>>),  \* '  '
    PyStr(<<>>),  \* ''
    PyNone,
    PyInt(5)
  }

Hello == <<104, 101, 108, 108, 111, 32>>
World == <<32, 119, 111, 114, 108, 100>>

RECURSIVE Flatten(_)
Flatten(ps) == IF Len(ps) = 0 THEN <<>> ELSE ps[1] \o Flatten(Tail(ps))

RECURSIVE SeqsUpTo(_, _)
SeqsUpTo(S, n) ==
  IF n = 0 THEN {<<>>}
  ELSE LET shorter == SeqsUpTo(S, n - 1)
       IN shorter \cup {Append(q, x) : q \in {r \in shorter : Len(r) = n - 1}, x \in S}

\* "<b>인공지능</b> &amp; 머신러닝 기술"
ScenarioText ==
  <<60, 98, 62, 51064, 44277, 51648, 45733, 60, 47, 98, 62, 32, 38, 97, 109, 112, 59,
    32, 47672, 49888, 47084, 45789, 32, 44592, 49696>>

\* Raw texts: the fragments put together, "hello <t> world" for every entry
\* t of the two vocabulary tables, and values that are not str
TextInputs ==
  {PyStr(Flatten(ps)) : ps \in SeqsUpTo(Pieces, MaxPieces)}
    \cup {PyStr(Hello \o t \o World) : t \in STOPWORDS \cup GARBAGE_TOKENS}
    \cup {PyStr(ScenarioText)}
    \cup {PyNone, PyInt(0), PyInt(5)}

CorpusInputs == SeqsUpTo(DocPool, MaxDocs)

\* The calls a caller makes one after the other
SessionDocs ==
  {
    PyStr(<<65, 73, 32, 109, 111, 100, 101, 108>>),  \* 'AI model'
    PyStr(<<99, 111, 109, 112, 117, 116, 101, 114, 32, 102, 101, 101, 100, 32,
            102, 101, 101, 100>>),  \* 'computer feed feed'
    PyStr(<<114, 115, 115, 32, 116, 111, 112, 105, 99>>),  \* 'rss topic'
    PyInt(5)
  }

SessionCorpora ==
  {<<>>} \cup {<<d>> : d \in SessionDocs}
    \cup {<<PyStr(<<65, 73, 32, 109, 111, 100, 101, 108>>),
             PyStr(<<114, 115, 115, 32, 116, 111, 112, 105, 99>>)>>}

SessionCalls ==
  {[op |-> "normalize_for_topics", text |-> t, corpus |-> <<>>, k |-> 0] :
     t \in SessionDocs}
    \cup {[op |-> o, text |-> PyNone, corpus |-> c, k |-> n] :
            o \in {"top_topics", "_fallback_keyword_extraction"},
            c \in SessionCorpora, n \in 0..MaxK}
    \cup {[op |-> "doc_topics", text |-> t, corpus |-> <<>>, k |-> n] :
            t \in SessionDocs, n \in 0..MaxK}

\* The five sentences of the scenario
FiveSentences ==
  <<PyStr(<<51064, 44277, 51648, 45733, 32, 44592, 49696, 51060, 32, 48156, 51204,
            54616, 44256, 32, 51080, 45796>>),  \* '인공지능 기술이 발전하고 있다'
    PyStr(<<47672, 49888, 47084, 45789, 32, 50508, 44256, 47532, 51608, 51012, 32,
            50672, 44396, 54620, 45796>>),  \* '머신러닝 알고리즘을 연구한다'
    PyStr(<<46373, 47084, 45789, 32, 47784, 45944, 51012, 32, 44060, 48156, 54620,
            45796>>),  \* '딥러닝 모델을 개발한다'
    PyStr(<<51088, 50672, 50612, 32, 52376, 47532, 32, 44592, 49696, 51012, 32, 51201,
            50857, 54620, 45796>>),  \* '자연어 처리 기술을 적용한다'
    PyStr(<<52980, 54504, 53552, 32, 48708, 51204, 32, 49884, 49828, 53596, 51012, 32,
            44396, 52629, 54620, 45796>>)>>  \* '컴퓨터 비전 시스템을 구축한다'

\* 'RSS XML JSON API 관련 내용'
FeedFormatDoc ==
  PyStr(<<82, 83, 83, 32, 88, 77, 76, 32, 74, 83, 79, 78, 32, 65, 80, 73, 32, 44288,
          47144, 32, 45236, 50857>>)

\* The calls of the two scenarios: the five sentences with k = 5, and the
\* feed-format document among them with k = 10
ScenarioCalls ==
  {[corpus |-> FiveSentences, k |-> 5],
   [corpus |-> <<FiveSentences[1], FiveSentences[2], FeedFormatDoc, FiveSentences[3],
                 FiveSentences[4], FiveSentences[5]>>, k |-> 10]}

\* The scenario corpora have fifteen and more equal scores, too many orders to
\* go through one by one; their calls are run for the sorts that order equal
\* scores by index.
TieOrders ==
  {[kind |-> "index", stride |-> d, shift |-> s, reversed |-> b] :
     d \in {1, 3, 5, 7}, s \in 0..33, b \in BOOLEAN}

\* The calls two threads make at the same time
ConcurrentCalls ==
  {[op |-> "top_topics", text |-> PyNone, k |-> 1,
    corpus |-> <<PyStr(<<65, 73, 32, 109, 111, 100, 101, 108>>),
                 PyStr(<<105, 111, 115>>)>>],  \* ['AI model', 'ios']
   [op |-> "top_topics", text |-> PyNone, k |-> 2,
    corpus |-> <<PyStr(<<114, 115, 115, 32, 116, 111, 112, 105, 99>>),
                 PyStr(<<99, 111, 109, 112, 117, 116, 101, 114, 32, 102, 101, 101,
                         100, 32, 102, 101, 101, 100>>)>>],  \* ['rss topic', 'computer feed feed']
   [op |-> "top_topics", text |-> PyNone, k |-> 1,
    corpus |-> <<PyStr(<<102, 101, 101, 100>>)>>],  \* ['feed']
   [op |-> "top_topics", text |-> PyNone, k |-> 2, corpus |-> <<>>],
   [op |-> "normalize_for_topics", text |-> PyStr(ScenarioText), k |-> 0,
    corpus |-> <<>>]}

----------------------------------------------------------------------------
(* The calls *)

NoTrace ==
  /\ path = "none"
  /\ top_topics_list = <<>>
  /\ filtered_topics = <<>>
  /\ final_filtered_topics = <<>>

\* one call at a time, on freshly imported modules
Fresh ==
  /\ tables = ImportedTables
  /\ calls = 0
  /\ threads = <<>>
  /\ vectorizers = <<>>

\* np.argsort leaves the order of equal scores to the sort it runs: every
\* order is explored
AnyOrder == [kind |-> "any", stride |-> 1, shift |-> 0, reversed |-> FALSE]

\* no vectorizer parameters looked at, no TopicExtractor under construction
NoParams == <<>>
NoExtractor == <<>>
Unused ==
  /\ params = NoParams
  /\ extractor = NoExtractor

InitNormalize ==
  /\ op = "normalize_for_topics"
  /\ text \in TextInputs
  /\ corpus = <<>>
  /\ k = 0
  /\ pc = "call"
  /\ result = Returned(<<>>)
  /\ passes = 0
  /\ NoTrace
  /\ Unused
  /\ Fresh
  /\ ties = AnyOrder

InitTopics ==
  /\ op = "top_topics"
  /\ text = PyNone
  /\ corpus \in CorpusInputs
  /\ k \in 0..MaxK
  /\ pc = "call"
  /\ result = ReturnedList(<<>>)
  /\ passes = 0
  /\ NoTrace
  /\ Unused
  /\ Fresh
  /\ ties = AnyOrder

InitFallback ==
  /\ op = "_fallback_keyword_extraction"
  /\ text = PyNone
  /\ corpus \in CorpusInputs
  /\ k \in 0..MaxK
  /\ pc = "call"
  /\ result = ReturnedList(<<>>)
  /\ passes = 0
  /\ NoTrace
  /\ Unused
  /\ Fresh
  /\ ties = AnyOrder

InitSession ==
  /\ \E c \in SessionCalls :
       /\ op = c.op
       /\ text = c.text
       /\ corpus = c.corpus
       /\ k = c.k
  /\ pc = "call"
  /\ result = ReturnedList(<<>>)
  /\ passes = 0
  /\ NoTrace
  /\ Unused
  /\ Fresh
  /\ ties = AnyOrder

InitScenario ==
  /\ op = "top_topics"
  /\ text = PyNone
  /\ \E c \in ScenarioCalls :
       /\ corpus = c.corpus
       /\ k = c.k
  /\ pc = "call"
  /\ result = ReturnedList(<<>>)
  /\ passes = 0
  /\ NoTrace
  /\ Unused
  /\ Fresh
  /\ ties \in TieOrders

InitConcurrent ==
  /\ op = "concurrent"
  /\ text = PyNone
  /\ corpus = <<>>
  /\ k = 0
  /\ pc = "threads"
  /\ result = ReturnedList(<<>>)
  /\ passes = 0
  /\ NoTrace
  /\ Unused
  /\ tables = ImportedTables
  /\ calls = 0
  /\ ties = AnyOrder
  /\ threads \in [Threads -> {Frame(c) : c \in ConcurrentCalls}]
  /\ vectorizers = [h \in {0} \cup Threads |-> <<>>]

\* How constructing a MorphologicalAnalyzer can end: "ok", the KoNLPy class
\* was instantiated; "unavailable", KoNLPy or the class is missing or its
\* constructor raised, which _initialize_analyzer catches (lines 226-232);
\* "raises", an exception leaves MorphologicalAnalyzer.__init__.
Outcomes == {"ok", "unavailable", "raises"}

\* MorphologicalAnalyzer(analyzer_type) when it returns: the object, with
\* analyzer None when the initialisation failed inside (lines 195-232)
MorphologicalAnalyzer(analyzer_type, outcome) ==
  [type |-> "MorphologicalAnalyzer", analyzer_type |-> analyzer_type,
   analyzer |-> IF outcome = "ok" THEN analyzer_type ELSE "None"]

\* the texts given to extract_keywords
KeywordTexts ==
  {<<>>,
   <<PyStr(<<65, 73, 32, 109, 111, 100, 101, 108>>)>>,
   <<PyStr(<<51060, 44277, 51648, 45733, 32, 44592, 49696>>),
     PyStr(<<65, 73, 32, 109, 111, 100, 101, 108>>)>>}

\* extractor = TopicExtractor(use_morphology), then
\* extractor.extract_keywords(texts)
InitExtractor ==
  /\ op = "TopicExtractor"
  /\ text = PyNone
  /\ corpus \in KeywordTexts
  /\ k = 0
  /\ pc = "komoran"
  /\ result = ReturnedList(<<>>)
  /\ passes = 0
  /\ NoTrace
  /\ Fresh
  /\ ties = AnyOrder
  /\ params = NoParams
  /\ \E use_morphology \in BOOLEAN, komoran \in Outcomes, okt \in Outcomes :
       extractor = [use_morphology |-> use_morphology, morph_analyzer |-> PyNone,
                    komoran |-> komoran, okt |-> okt]

\* candidate strings for gate 1
GatePool ==
  {
    <<97>>,  \* a
    <<52, 50>>,  \* 42
    <<103, 112, 116, 52>>,  \* gpt4
    <<65, 73>>,  \* AI
    <<114, 115, 115>>,  \* rss
    <<74, 115, 111, 110>>,  \* Json
    <<109, 111, 100, 101, 108>>,  \* model
    <<116, 111, 112, 105, 99>>,  \* topic
    <<102, 101, 101, 100>>,  \* feed
    <<97, 105, 32, 109, 111, 100, 101, 108>>,  \* ai model
    <<44592, 49696>>,  \* 기술
    <<99, 111, 109, 112, 117, 116, 101, 114>>  \* computer
  }

\* the documents of the top_topics calls that gate 1 is followed in
GateDocs ==
  {
    PyStr(<<65, 73, 32, 109, 111, 100, 101, 108>>),  \* 'AI model'
    PyStr(<<102, 101, 101, 100>>),  \* 'feed'
    PyStr(<<114, 115, 115, 32, 116, 111, 112, 105, 99>>),  \* 'rss topic'
    PyStr(<<99, 111, 109, 112, 117, 116, 101, 114, 32, 102, 101, 101, 100, 32, 102, 101, 101, 100>>)  \* 'computer feed feed'
  }

InitGateCalls ==
  /\ InitTopics
  /\ Range(corpus) \subseteq GateDocs

\* the documents of the top_topics calls whose ranking is looked at
RankDocs ==
  {
    PyStr(<<65, 73, 32, 109, 111, 100, 101, 108>>),  \* 'AI model'
    PyStr(<<102, 101, 101, 100>>),  \* 'feed'
    PyStr(<<44592, 49696, 32, 99, 43, 43, 32, 52, 50>>),  \* '기술 c++ 42'
    PyStr(<<114, 115, 115, 32, 116, 111, 112, 105, 99>>)  \* 'rss topic'
  }

InitRanked ==
  /\ InitTopics
  /\ Range(corpus) \subseteq RankDocs

\* documents for the fallback extractor, words of its final list among them
FallbackDocs ==
  {
    PyStr(<<97, 105, 32, 114, 115, 115, 32, 109, 111, 100, 101, 108>>),  \* 'ai rss model'
    PyStr(<<65, 73, 32, 109, 111, 100, 101, 108>>),  \* 'AI model'
    PyStr(<<114, 115, 115, 32, 116, 111, 112, 105, 99>>),  \* 'rss topic'
    PyStr(<<102, 101, 101, 100, 32, 102, 101, 101, 100, 32, 109, 111, 100, 101, 108>>),  \* 'feed feed model'
    PyStr(<<109, 111, 100, 101, 108, 32, 100, 97, 116, 97>>)  \* 'model data'
  }

InitFallbackCalls ==
  /\ op = "_fallback_keyword_extraction"
  /\ text = PyNone
  /\ corpus \in SeqsUpTo(FallbackDocs, MaxDocs)
  /\ k \in 0..MaxK
  /\ pc = "call"
  /\ result = ReturnedList(<<>>)
  /\ passes = 0
  /\ NoTrace
  /\ Unused
  /\ Fresh
  /\ ties = AnyOrder

\* how many candidates gate 1 is given
MaxCandidates == 2

\* gate 1 (lines 549-565) as a function of the candidate list
InitGate1 ==
  /\ op = "quality_gate_1"
  /\ text = PyNone
  /\ corpus = <<>>
  /\ k = 0
  /\ pc = "call"
  /\ result = ReturnedList(<<>>)
  /\ passes = 0
  /\ path = "none"
  /\ top_topics_list \in SeqsUpTo(GatePool, MaxCandidates)
  /\ filtered_topics = <<>>
  /\ final_filtered_topics = <<>>
  /\ Unused
  /\ Fresh
  /\ ties = AnyOrder

\* lines 511-524 for a corpus of corpus_size documents, and a term found in
\* df of them
InitParams ==
  /\ op = "vectorizer_params"
  /\ text = PyNone
  /\ corpus = <<>>
  /\ k = 0
  /\ pc = "call"
  /\ result = ReturnedList(<<>>)
  /\ passes = 0
  /\ NoTrace
  /\ Fresh
  /\ ties = AnyOrder
  /\ \E n \in 1..MaxCorpusSize, df \in 0..MaxCorpusSize :
       /\ df <= n
       /\ params = [corpus_size |-> n, df |-> df, min_df |-> 0, max_df |-> <<0, 1>>,
                    in_vocabulary |-> FALSE]
  /\ extractor = NoExtractor

Init ==
  \/ InitNormalize \/ InitTopics \/ InitFallback \/ InitSession \/ InitScenario
  \/ InitConcurrent \/ InitParams \/ InitExtractor \/ InitGate1

\* text_clean = normalize_for_topics(text_raw)
Normalize ==
  /\ op = "normalize_for_topics"
  /\ pc = "call"
  /\ result' = normalize_for_topics(text)
  /\ passes' = passes + 1
  /\ calls' = calls + 1
  /\ pc' = "done"
  /\ UNCHANGED <<op, text, corpus, k, path, top_topics_list, filtered_topics,
                 final_filtered_topics, tables, ties, threads, vectorizers, params, extractor>>

\* The cleaned text is handed to normalize_for_topics again.
Renormalize ==
  /\ op = "normalize_for_topics"
  /\ pc = "done"
  /\ result.exc = "none"
  /\ passes < MaxPasses
  /\ text' = PyStr(result.str)
  /\ pc' = "call"
  /\ UNCHANGED <<op, corpus, k, result, passes, path, top_topics_list,
                 filtered_topics, final_filtered_topics, tables, calls, ties,
                 threads, vectorizers, params, extractor>>

\* topics = extractor.top_topics(corpus, k)
TopTopics ==
  /\ op = "top_topics"
  /\ pc = "call"
  /\ ties.kind = "any"
  /\ \E o \in top_topics(corpus, k) :
       /\ result' = o.result
       /\ path' = o.path
       /\ top_topics_list' = o.top_topics_list
       /\ filtered_topics' = o.filtered_topics
       /\ final_filtered_topics' = o.final_filtered_topics
  /\ tables' = IF Len(corpus) = 0 \/ DebugSampleRaises(corpus) THEN tables
                ELSE TablesAfterUnion(tables)
  /\ calls' = calls + 1
  /\ pc' = "done"
  /\ UNCHANGED <<op, text, corpus, k, passes, ties, threads, vectorizers, params, extractor>>

\* topics = extractor.top_topics(corpus, k) where the sort orders equal
\* scores by index
TopTopicsIndexed ==
  /\ op = "top_topics"
  /\ pc = "call"
  /\ ties.kind = "index"
  /\ \E o \in {top_topics_indexed(corpus, k, ties)} :
       /\ result' = o.result
       /\ path' = o.path
       /\ top_topics_list' = o.top_topics_list
       /\ filtered_topics' = o.filtered_topics
       /\ final_filtered_topics' = o.final_filtered_topics
  /\ tables' = IF Len(corpus) = 0 \/ DebugSampleRaises(corpus) THEN tables
                ELSE TablesAfterUnion(tables)
  /\ calls' = calls + 1
  /\ pc' = "done"
  /\ UNCHANGED <<op, text, corpus, k, passes, ties, threads, vectorizers, params, extractor>>

\* keywords = extractor._fallback_keyword_extraction(corpus, k)
FallbackExtract ==
  /\ op = "_fallback_keyword_extraction"
  /\ pc = "call"
  /\ result' = FallbackCall(corpus, k)
  /\ calls' = calls + 1
  /\ pc' = "done"
  /\ UNCHANGED <<op, text, corpus, k, passes, path, top_topics_list,
                 filtered_topics, final_filtered_topics, tables, ties, threads,
                 vectorizers, params, extractor>>

\* topics = extractor.doc_topics(text, n), the argument n held by k
DocTopics ==
  /\ op = "doc_topics"
  /\ pc = "call"
  /\ result' = doc_topics(text, k)
  /\ tables' = IF Truthy(text) /\ IsStr(text) THEN TablesAfterUnion(tables) ELSE tables
  /\ calls' = calls + 1
  /\ pc' = "done"
  /\ UNCHANGED <<op, text, corpus, k, passes, path, top_topics_list,
                 filtered_topics, final_filtered_topics, ties, threads, vectorizers, params, extractor>>

\* The caller goes on to its next call, with arguments of its choice.
NextCall ==
  /\ pc = "done"
  /\ calls < MaxCalls
  /\ \E c \in SessionCalls :
       /\ op' = c.op
       /\ text' = c.text
       /\ corpus' = c.corpus
       /\ k' = c.k
  /\ pc' = "call"
  /\ result' = ReturnedList(<<>>)
  /\ passes' = 0
  /\ path' = "none"
  /\ top_topics_list' = <<>>
  /\ filtered_topics' = <<>>
  /\ final_filtered_topics' = <<>>
  /\ UNCHANGED <<tables, calls, ties, threads, vectorizers, params, extractor>>

\* what the steps of a thread leave alone
callvars ==
  <<op, text, corpus, k, pc, result, passes, path, top_topics_list, filtered_topics,
    final_filtered_topics, calls, ties, params, extractor>>

\* thread t runs normalize_for_topics(text): locals only
ThreadNormalize(t) ==
  /\ pc = "threads"
  /\ threads[t].op = "normalize_for_topics"
  /\ threads[t].pc = "start"
  /\ threads' = [threads EXCEPT ![t].pc = "done",
                                ![t].result = normalize_for_topics(threads[t].text)]
  /\ UNCHANGED <<vectorizers, tables, callvars>>

\* thread t runs top_topics up to line 524: the early ends, the union of the
\* tables and the new vectorizer
ThreadConstruct(t) ==
  /\ pc = "threads"
  /\ threads[t].op = "top_topics"
  /\ threads[t].pc = "start"
  /\ IF EndsBeforeVectorizer(threads[t])
       THEN /\ threads' = [threads EXCEPT ![t].pc = "done",
                                          ![t].result = ResultBeforeVectorizer(threads[t])]
            /\ UNCHANGED <<vectorizers, tables>>
       ELSE /\ threads' = [threads EXCEPT ![t].pc = "constructed"]
            /\ vectorizers' = [vectorizers EXCEPT ![VectorizerHolder(t)] = <<>>]
            /\ tables' = TablesAfterUnion(tables)
  /\ UNCHANGED callvars

\* thread t runs line 528, vectorizer.fit_transform(corpus): the vectorizer
\* learns the feature names, the matrix (here its column scores) is a local
ThreadFit(t) ==
  /\ pc = "threads"
  /\ threads[t].pc = "constructed"
  /\ IF VectorizerError(threads[t].corpus) # "none"
       THEN /\ threads' =
                 [threads EXCEPT ![t].pc = "done",
                                 ![t].result = OnVectorizerError(threads[t].corpus,
                                                                 threads[t].k).result]
            /\ UNCHANGED vectorizers
       ELSE \E fitted \in {Fitted(threads[t].corpus)} :
              /\ threads' = [threads EXCEPT ![t].pc = "fitted",
                                            ![t].mean_scores = fitted[2]]
              /\ vectorizers' = [vectorizers EXCEPT ![VectorizerHolder(t)] = fitted[1]]
  /\ UNCHANGED <<tables, callvars>>

\* thread t runs lines 529-613: the feature names are read off the
\* vectorizer, the rest works on locals
ThreadRank(t) ==
  /\ pc = "threads"
  /\ threads[t].pc = "fitted"
  /\ \E r \in RankResults(threads[t], vectorizers[VectorizerHolder(t)]) :
       threads' = [threads EXCEPT ![t].pc = "done", ![t].result = r]
  /\ UNCHANGED <<vectorizers, tables, callvars>>

\* lines 511-524: min_df and max_df are chosen from the corpus size and given
\* to the vectorizer, whose pruning then keeps or drops a term by its df
VectorizerParams ==
  /\ op = "vectorizer_params"
  /\ pc = "call"
  /\ params' = [params EXCEPT !.min_df = min_df(params.corpus_size),
                              !.max_df = <<MaxDfNum, MaxDfDen>>,
                              !.in_vocabulary = DfKept(params.df, params.corpus_size)]
  /\ calls' = calls + 1
  /\ pc' = "done"
  /\ UNCHANGED <<op, text, corpus, k, result, passes, path, top_topics_list,
                 filtered_topics, final_filtered_topics, tables, ties, threads,
                 vectorizers, extractor>>

\* TopicExtractor.__init__, lines 24-31 and 42-43: KOMORAN is tried first
ConstructKomoran ==
  /\ op = "TopicExtractor"
  /\ pc = "komoran"
  /\ IF ~extractor.use_morphology
       THEN /\ extractor' = [extractor EXCEPT !.morph_analyzer = PyNone]
            /\ pc' = "ready"
       ELSE IF extractor.komoran = "raises"
         THEN /\ pc' = "okt"
              /\ UNCHANGED extractor
         ELSE /\ extractor' =
                   [extractor EXCEPT !.morph_analyzer =
                      MorphologicalAnalyzer("komoran", extractor.komoran)]
              /\ pc' = "ready"
  /\ UNCHANGED <<op, text, corpus, k, result, passes, path, top_topics_list,
                 filtered_topics, final_filtered_topics, tables, calls, ties,
                 threads, vectorizers, params>>

\* TopicExtractor.__init__, lines 32-41: the handler of an exception raised by
\* MorphologicalAnalyzer("komoran") tries Okt, and gives up when that raises
ConstructOkt ==
  /\ op = "TopicExtractor"
  /\ pc = "okt"
  /\ IF extractor.okt = "raises"
       THEN extractor' = [extractor EXCEPT !.use_morphology = FALSE,
                                           !.morph_analyzer = PyNone]
       ELSE extractor' = [extractor EXCEPT !.morph_analyzer =
                            MorphologicalAnalyzer("okt", extractor.okt)]
  /\ pc' = "ready"
  /\ UNCHANGED <<op, text, corpus, k, result, passes, path, top_topics_list,
                 filtered_topics, final_filtered_topics, tables, calls, ties,
                 threads, vectorizers, params>>

\* extract_keywords(texts), lines 99-106: which extraction the call is given
\* to.  An object without __bool__ and __len__ is true.
ExtractKeywords ==
  /\ op = "TopicExtractor"
  /\ pc = "ready"
  /\ path' = IF Len(corpus) = 0 THEN "no_texts"
             ELSE IF extractor.use_morphology /\ extractor.morph_analyzer # PyNone
               THEN "_extract_keywords_with_morphology"
             ELSE "_extract_keywords_basic"
  /\ calls' = calls + 1
  /\ pc' = "done"
  /\ UNCHANGED <<op, text, corpus, k, result, passes, top_topics_list,
                 filtered_topics, final_filtered_topics, tables, ties, threads,
                 vectorizers, params, extractor>>

\* lines 549-565: filtered_topics is built from top_topics_list
QualityGate1 ==
  /\ op = "quality_gate_1"
  /\ pc = "call"
  /\ filtered_topics' = filtered(top_topics_list)
  /\ calls' = calls + 1
  /\ pc' = "done"
  /\ UNCHANGED <<op, text, corpus, k, result, passes, path, top_topics_list,
                 final_filtered_topics, tables, ties, threads, vectorizers,
                 params, extractor>>

NextConcurrent ==
  \E t \in Threads :
    ThreadNormalize(t) \/ ThreadConstruct(t) \/ ThreadFit(t) \/ ThreadRank(t)

NextNormalize == Normalize \/ Renormalize
NextTopics == TopTopics
NextFallback == FallbackExtract
NextParams == VectorizerParams
NextGate1 == TopTopics \/ QualityGate1
NextExtractor == ConstructKomoran \/ ConstructOkt \/ ExtractKeywords
NextScenario == TopTopicsIndexed
NextTopicsScenario == TopTopics \/ TopTopicsIndexed
NextSession ==
  Normalize \/ Renormalize \/ TopTopics \/ FallbackExtract \/ DocTopics \/ NextCall
Next ==
  \/ Normalize \/ Renormalize \/ TopTopics \/ TopTopicsIndexed \/ FallbackExtract
  \/ DocTopics \/ NextCall \/ VectorizerParams
  \/ ConstructKomoran \/ ConstructOkt \/ ExtractKeywords \/ QualityGate1
  \/ \E t \in Threads :
       ThreadNormalize(t) \/ ThreadConstruct(t) \/ ThreadFit(t) \/ ThreadRank(t)

Spec == Init /\ [][Next]_vars
SpecNormalize == InitNormalize /\ [][NextNormalize]_vars
SpecTopics == InitTopics /\ [][NextTopics]_vars
SpecFallback == InitFallback /\ [][NextFallback]_vars
SpecFallbackCalls == InitFallbackCalls /\ [][NextFallback]_vars
SpecParams == InitParams /\ [][NextParams]_vars
SpecRanked == InitRanked /\ [][NextTopics]_vars
SpecGate1 == (InitGateCalls \/ InitGate1) /\ [][NextGate1]_vars
SpecExtractor == InitExtractor /\ [][NextExtractor]_vars
SpecSession == InitSession /\ [][NextSession]_vars
SpecConcurrent == InitConcurrent /\ [][NextConcurrent]_vars
SpecScenario == InitScenario /\ [][NextScenario]_vars
SpecTopicsScenario == (InitTopics \/ InitScenario) /\ [][NextTopicsScenario]_vars
----------------------------------------------------------------------------
(* Properties *)

NormalizeDone == op = "normalize_for_topics" /\ pc = "done"
TopicsDone == op = "top_topics" /\ pc = "done"
TopicsReturned == TopicsDone /\ result.exc = "none"

\* the whitespace-separated words of every returned topic
ReturnedWords == UNION {Range(Split(result.topics[i])) : i \in 1..Len(result.topics)}

\* the tokens of the text normalize_for_topics returned
OutputTokens == Range(Split(result.str))

\* C1: for a non-empty corpus and k >= 0, top_topics returns at most k
\* topics, on the statistical path and on the fallback path.
C1_TopicCountBound ==
  (TopicsReturned /\ Len(corpus) > 0) => Len(result.topics) <= k

\* C1 witness: the statistical path returned k = 1 topic although more
\* candidates had passed gate 1.
C1_Witness ==
  /\ TopicsReturned
  /\ path = "statistical"
  /\ k = 1
  /\ Len(result.topics) = 1
  /\ Len(filtered_topics) > 1

\* C2 as claimed: no word of a returned topic is, compared in lowercase, in
\* STOPWORDS, GARBAGE_TOKENS, the gate-1 exact-match list, the gate-2
\* forbidden-token list or the normalizer's auxiliary list.
C2_NoListedWord ==
  TopicsReturned =>
    \A w \in ReturnedWords :
      Lower(w) \notin (STOPWORDS \cup GARBAGE_TOKENS \cup gate1_exact
                         \cup forbidden_tokens \cup forbidden_patterns)

\* C3 as claimed: every word of a returned topic is made of Hangul
\* syllables and Latin letters only.
C3_LettersOnly ==
  TopicsReturned => \A w \in ReturnedWords : LettersOnly(w)

\* C4: every word of a returned topic is longer than one character and is
\* not purely numeric, on both paths.
C4_LengthAndNotNumeric ==
  TopicsReturned => \A w \in ReturnedWords : Len(w) > 1 /\ ~IsDigitStr(w)

\* C4 witness: the fallback returned topics from the corpus ["기술 c++ 42"],
\* one of whose tokens is a number.
C4_Witness ==
  /\ TopicsReturned
  /\ path = "fallback_exception"
  /\ corpus = <<PyStr(<<44592, 49696, 32, 99, 43, 43, 32, 52, 50>>)>>
  /\ Len(result.topics) > 0

\* C5: normalize_for_topics is idempotent: run on its own output it returns
\* that output unchanged.
C5_Idempotent ==
  (NormalizeDone /\ passes >= 2) => (result.exc = "none" /\ result.str = text.val)

\* C5 witness: a second pass over a cleaned text of several tokens.
C5_Witness ==
  /\ NormalizeDone
  /\ passes = 2
  /\ Cardinality(OutputTokens) >= 2

\* C6: no token of the output of normalize_for_topics is in STOPWORDS, in
\* GARBAGE_TOKENS or in the auxiliary forbidden-token list; in particular t
\* is no token of the output for "hello t world", t in either table.
C6_DenylistExclusion ==
  NormalizeDone =>
    /\ \A w \in OutputTokens :
         w \notin (STOPWORDS \cup GARBAGE_TOKENS \cup forbidden_patterns)
    /\ \A t \in STOPWORDS \cup GARBAGE_TOKENS :
         text = PyStr(Hello \o t \o World) => t \notin OutputTokens

\* C6 witness: "hello nbsp world" was cleaned to "hello world".
C6_Witness ==
  /\ NormalizeDone
  /\ text = PyStr(<<104, 101, 108, 108, 111, 32, 110, 98, 115, 112, 32,
                    119, 111, 114, 108, 100>>)
  /\ result.str = <<104, 101, 108, 108, 111, 32, 119, 111, 114, 108, 100>>

\* C7: no token of the output of normalize_for_topics has length <= 1, is
\* purely numeric or contains a digit.
C7_LengthDigit ==
  NormalizeDone =>
    \A w \in OutputTokens : Len(w) > 1 /\ ~IsDigitStr(w) /\ ~HasDigit(w)

\* C7 witness: a raw text with a digit in it was cleaned to a non-empty text.
C7_Witness ==
  /\ NormalizeDone
  /\ passes = 1
  /\ IsStr(text) /\ HasDigit(text.val)
  /\ Len(result.str) > 0

\* whitespace-only, the empty string included
IsBlank(s) == \A i \in 1..Len(s) : IsSpace(s[i])

\* C8: normalize_for_topics never raises, and returns the empty string for
\* None, for any value that is not a str and for a str that is empty or all
\* whitespace.
C8_NeverRaises ==
  NormalizeDone =>
    /\ result.exc = "none"
    /\ (~IsStr(text) \/ IsBlank(text.val)) => result.str = <<>>

\* C8 witness: the call on the int 5 returned the empty string.
C8_Witness ==
  /\ NormalizeDone
  /\ text = PyInt(5)
  /\ result = Returned(<<>>)

\* C9 as claimed: top_topics ends by returning a list whatever the corpus
\* elements are (None, not a str, all whitespace).
C9_NoException ==
  TopicsDone => result.exc = "none"

\* C10: when vectorization fails in a call that reaches it, nothing is
\* raised and the result is the fallback extractor's for the same corpus and
\* k; for ["nbsp href www", "a b c"] the result holds no garbage token.
C10_VectorizerFailureFallsBack ==
  TopicsDone =>
    /\ (Len(corpus) > 0 /\ ~DebugSampleRaises(corpus) /\ VectorizerError(corpus) # "none")
         => result = ReturnedList(_fallback_keyword_extraction(corpus, k))
    /\ corpus = <<PyStr(<<110, 98, 115, 112, 32, 104, 114, 101, 102, 32, 119, 119, 119>>),
                  PyStr(<<97, 32, 98, 32, 99>>)>>
         => (result.exc = "none" /\ ReturnedWords \cap GARBAGE_TOKENS = {})

\* C10 witness: the single-document corpus ["feed"], on which max_df * n is
\* below min_df, got the fallback's one keyword.
C10_Witness ==
  /\ TopicsDone
  /\ corpus = <<PyStr(<<102, 101, 101, 100>>)>>
  /\ k = 1
  /\ path = "fallback_exception"
  /\ result = ReturnedList(<<<<102, 101, 101, 100>>>>)

FallbackDone == op = "_fallback_keyword_extraction" /\ pc = "done"

CorpusWords ==
  Flatten([i \in 1..Len(corpus) |->
             IF IsStr(corpus[i]) THEN Split(Lower(corpus[i].val)) ELSE <<>>])

\* the position at which w is first met in the corpus
FirstSeen(w) == CHOOSE i \in 1..Len(CorpusWords) :
                  CorpusWords[i] = w /\ \A j \in 1..(i - 1) : CorpusWords[j] # w

\* C12: the fallback's list is in non-increasing order of occurrence count
\* over the whole corpus, equal counts in order of first occurrence, and
\* every returned token is a lowercased corpus word of length > 1, outside
\* STOPWORDS and GARBAGE_TOKENS, not numeric and without a digit.
C12_FallbackRanking ==
  (FallbackDone /\ ~FallbackError(corpus)) =>
    LET r == result.topics
    IN /\ result.exc = "none"
       /\ \A i \in 1..Len(r) :
            /\ r[i] \in Range(CorpusWords)
            /\ Len(r[i]) > 1
            /\ r[i] \notin STOPWORDS \cup GARBAGE_TOKENS
            /\ ~IsDigitStr(r[i])
            /\ ~HasDigit(r[i])
       /\ \A i \in 1..Len(r) : \A j \in (i + 1)..Len(r) :
            \/ Count(r[i], CorpusWords) > Count(r[j], CorpusWords)
            \/ /\ Count(r[i], CorpusWords) = Count(r[j], CorpusWords)
               /\ FirstSeen(r[i]) < FirstSeen(r[j])

\* C12 witness: for ["computer feed feed"] the fallback returned "feed"
\* (twice in the corpus) before "computer" (once, but met first).
C12_Witness ==
  /\ FallbackDone
  /\ corpus = <<PyStr(<<99, 111, 109, 112, 117, 116, 101, 114, 32, 102, 101, 101, 100, 32,
                        102, 101, 101, 100>>)>>
  /\ result = ReturnedList(<<<<102, 101, 101, 100>>,
                             <<99, 111, 109, 112, 117, 116, 101, 114>>>>)

\* C13: the fallback extractor never raises, and returns the empty list for
\* an empty corpus, for a corpus none of whose words passes the filters, and
\* when processing the corpus fails inside.
C13_FallbackNeverRaises ==
  FallbackDone =>
    /\ result.exc = "none"
    /\ (\/ corpus = <<>>
        \/ FallbackError(corpus)
        \/ \A w \in Range(CorpusWords) : ~FallbackKeep(w))
         => result.topics = <<>>

\* C13 witness: the call on [5] (an int has no lower()) returned [].
C13_Witness ==
  /\ FallbackDone
  /\ corpus = <<PyInt(5)>>
  /\ k = 1
  /\ result = ReturnedList(<<>>)

\* C14: top_topics([], k) returns [] whatever k is, taking the early return
\* that runs neither the vectorizer nor the fallback extractor.
C14_EmptyCorpus ==
  (TopicsDone /\ corpus = <<>>) =>
    (result = ReturnedList(<<>>) /\ path = "empty_corpus")

\* C14 witness: the call top_topics([], 2) has returned.
C14_Witness ==
  /\ TopicsDone
  /\ corpus = <<>>
  /\ k = 2
  /\ path = "empty_corpus"
\* the feed-format words of the scenario
FeedFormatWords ==
  {<<114, 115, 115>>, <<120, 109, 108>>, <<106, 115, 111, 110>>, <<97, 112, 105>>}

\* C17: whatever the corpus and k, and whichever path produced the list, no
\* topic top_topics returns is "rss", "xml", "json" or "api", and no word of
\* a returned topic is one of them.
C17_NoFeedFormatWord ==
  TopicsReturned =>
    \A i \in 1..Len(result.topics) :
      /\ Lower(result.topics[i]) \notin FeedFormatWords
      /\ \A w \in Range(Split(Lower(result.topics[i]))) : w \notin FeedFormatWords

\* C17 witness: on the statistical path a bigram with the word "rss" passed
\* gate 1, gate 2 removed it, and the call returned topics.
C17_Witness ==
  /\ TopicsReturned
  /\ path = "statistical"
  /\ \E i \in 1..Len(filtered_topics) :
       /\ <<114, 115, 115>> \in Range(Split(Lower(filtered_topics[i])))
       /\ filtered_topics[i] \notin Range(final_filtered_topics)
  /\ Len(result.topics) > 0

\* the tokens the smoke test looks for in every topic
SmokeForbiddenTokens ==
  {<<110, 98, 115, 112>>, <<102, 111, 110, 116>>, <<104, 114, 101, 102>>,
   <<104, 116, 116, 112, 115>>, <<99, 111, 109>>,
   <<103, 111, 111, 103, 108, 101>>, <<110, 101, 119, 115>>}

\* C18: no topic top_topics returns contains, in its lowercase form, one of
\* nbsp, font, href, https, com, google, news as a substring.
C18_NoForbiddenSubstring ==
  TopicsReturned =>
    \A i \in 1..Len(result.topics) : \A tok \in SmokeForbiddenTokens :
      ~Contains(Lower(result.topics[i]), tok)
\* the raw text once every tag and every entity spelled "&...;" is deleted
RemoveMarkup(s) == ReSub("&[a-zA-Z0-9#]+;", <<>>, ReSub("<[^>]+>", <<>>, s, 1), 1)

\* the raw text is made of tags and entities only
MarkupOnly(v) == IsStr(v) /\ Len(v.val) > 0 /\ RemoveMarkup(v.val) = <<>>

\* some reference of the raw text stands for a letter, a digit or "_"
DecodesToWordChar(v) ==
  /\ IsStr(v)
  /\ \E i \in 1..Len(v.val) :
       /\ v.val[i] = 38
       /\ LET m == Charref(v.val, i)
          IN /\ m[1] # 0
             /\ m[2] # SubSeq(v.val, i, m[1] - 1)
             /\ \E j \in 1..Len(m[2]) : IsWord(m[2][j])

\* the scenario of C19: the three Korean words are tokens of the output,
\* "b" and "amp" are not, and no token has a character of a tag or entity
ScenarioOutputClean ==
  /\ {<<51064, 44277, 51648, 45733>>, <<47672, 49888, 47084, 45789>>,
      <<44592, 49696>>} \subseteq OutputTokens
  /\ <<98>> \notin OutputTokens
  /\ <<97, 109, 112>> \notin OutputTokens
  /\ \A t \in OutputTokens : \A i \in 1..Len(t) : t[i] \notin {60, 62, 47, 38, 59}

\* C19 as stated: the scenario's output is clean, and no tag and no HTML
\* entity of the input contributes a token, so a text made of tags and
\* entities only yields no token at all.
C19_MarkupContributesNoToken ==
  (NormalizeDone /\ passes = 1) =>
    /\ text = PyStr(ScenarioText) => ScenarioOutputClean
    /\ MarkupOnly(text) => OutputTokens = {}

\* C19 amended: the scenario's output is clean; a text made only of tags and
\* of entities that stand for no letter, digit or "_" yields no token; a
\* character reference to a letter is decoded first and its letter takes part
\* in a token ("&#65;&#65;" gives "aa").
C19_MarkupOrDecodedText ==
  (NormalizeDone /\ passes = 1) =>
    /\ text = PyStr(ScenarioText) => ScenarioOutputClean
    /\ (MarkupOnly(text) /\ ~DecodesToWordChar(text)) => OutputTokens = {}
    /\ text = PyStr(<<38, 35, 54, 53, 59, 38, 35, 54, 53, 59>>)
         => result = Returned(<<97, 97>>)

\* C19 witness: the scenario text has been normalized to
\* "인공지능 머신러닝 기술".
C19_Witness ==
  /\ NormalizeDone
  /\ passes = 1
  /\ text = PyStr(ScenarioText)
  /\ result = Returned(<<51064, 44277, 51648, 45733, 32, 47672, 49888, 47084, 45789,
                         32, 44592, 49696>>)
\* C16: no operation adds to or removes from STOPWORDS or GARBAGE_TOKENS or
\* changes the corpus it was given: in every state of every sequence of
\* calls both tables are as imported and all their members are lowercase,
\* and no step of a pending call changes the corpus.
C16_TablesAndCorpusUntouched ==
  /\ [](/\ tables = ImportedTables
        /\ \A w \in tables.STOPWORDS \cup tables.GARBAGE_TOKENS : Lower(w) = w)
  /\ [][pc = "call" => corpus' = corpus]_vars

\* C16 witness: two calls have ended, the second one a doc_topics call that
\* built the union of the tables and returned topics, and both tables are
\* as imported.
C16_Witness ==
  /\ calls = 2
  /\ op = "doc_topics"
  /\ pc = "done"
  /\ Len(result.topics) > 0
  /\ tables = ImportedTables
\* a topic that holds none of the tokens the smoke test looks for and none
\* of the words gate 2 forbids
NoForbiddenToken(topic) ==
  /\ \A tok \in SmokeForbiddenTokens : ~Contains(Lower(topic), tok)
  /\ Gate2(topic)

\* C20: for the five Korean sentences and k = 5, top_topics returns between
\* one and five topics, none of which contains a forbidden token.  The
\* vectorizer accepts the corpus and every term of its vocabulary passes both
\* gates and holds no forbidden token, so this does not depend on the order
\* np.argsort gives to equal scores.
C20_FiveSentences ==
  (TopicsDone /\ corpus = FiveSentences /\ k = 5) =>
    /\ result.exc = "none"
    /\ Len(result.topics) \in 1..5
    /\ \A i \in 1..Len(result.topics) : NoForbiddenToken(result.topics[i])
    /\ path = "statistical"
    /\ Len(top_topics_list) = 15
    /\ \A t \in Vocabulary(Rows(corpus)) : Gate1(t) /\ NoForbiddenToken(t)

\* C20 witness: the call on the five sentences with k = 5 returned five
\* topics, "머신러닝" among them, for one of the sorts.
C20_Witness ==
  /\ TopicsDone
  /\ corpus = FiveSentences
  /\ k = 5
  /\ ties = [kind |-> "index", stride |-> 1, shift |-> 12, reversed |-> TRUE]
  /\ Len(result.topics) = 5
  /\ <<47672, 49888, 47084, 45789>> \in Range(result.topics)
\* C15: concurrent calls on one instance share no mutable state: whatever
\* the interleaving, a call that has ended has a result it can have when it
\* runs alone, no attribute of the instance has been written and the tables
\* are as imported.
C15_SameResultAsAlone ==
  pc = "threads" =>
    /\ \A t \in Threads :
         threads[t].pc = "done" => threads[t].result \in AloneResults(threads[t])
    /\ vectorizers[0] = <<>>
    /\ tables = ImportedTables

\* C15 witness: two top_topics calls with different corpora have both ended
\* on the statistical steps, and each vectorizer holds its own feature names.
C15_Witness ==
  /\ pc = "threads"
  /\ \A t \in Threads : threads[t].pc = "done" /\ Len(threads[t].mean_scores) > 0
  /\ threads[1].corpus # threads[2].corpus
  /\ vectorizers[1] # vectorizers[2]
  /\ Len(threads[1].result.topics) > 0
\* the tokens of the returned text, in order
OutputTokenSeq == Split(result.str)

\* C21: the output of normalize_for_topics is made of lowercase tokens of
\* Hangul syllables and Latin letters only, joined by exactly one space, with
\* no whitespace at either end; the tokens are the surviving tokens of the
\* input, in their order and as many times as they occur there.
C21_OutputShape ==
  (NormalizeDone /\ passes = 1 /\ IsStr(text) /\ Len(text.val) > 0) =>
    /\ result.exc = "none"
    /\ \A i \in 1..Len(OutputTokenSeq) :
         /\ LettersOnly(OutputTokenSeq[i])
         /\ Lower(OutputTokenSeq[i]) = OutputTokenSeq[i]
         /\ \A j \in 1..Len(OutputTokenSeq[i]) :
              IsHangul(OutputTokenSeq[i][j]) \/ OutputTokenSeq[i][j] \in 97..122
    /\ \A i \in 1..Len(result.str) :
         IsSpace(result.str[i]) =>
           /\ result.str[i] = 32
           /\ i > 1 /\ i < Len(result.str)
           /\ ~IsSpace(result.str[i + 1])
    /\ LET tokens == Tokenize(StripMarkup(text.val))
       IN OutputTokenSeq = Select(tokens, [i \in 1..Len(tokens) |-> KeepToken(tokens[i])])

\* C21 witness: "AI AI" gave "ai ai": lowercased, joined by one space, and
\* the token that occurs twice kept twice.
C21_Witness ==
  /\ NormalizeDone
  /\ passes = 1
  /\ text = PyStr(<<65, 73, 32, 65, 73>>)
  /\ result = Returned(<<97, 105, 32, 97, 105>>)
\* C22: for every corpus size n >= 1 min_df is 1 below 20 documents, 2 from
\* 20 to 29 and 3 from 30 on, max_df is 0.8 whatever n is, and a term enters
\* the vocabulary only if its document frequency df satisfies min_df <= df
\* and 10 * df <= 8 * n.
C22_DocumentFrequencyParameters ==
  (op = "vectorizer_params" /\ pc = "done") =>
    /\ params.corpus_size >= 1
    /\ params.min_df = (IF params.corpus_size < 20 THEN 1
                        ELSE IF params.corpus_size < 30 THEN 2 ELSE 3)
    /\ params.max_df = <<8, 10>>
    /\ params.in_vocabulary =>
         /\ params.min_df <= params.df
         /\ 10 * params.df <= 8 * params.corpus_size

\* C22 witness: 25 documents give min_df = 2, and a term found in 20 of them,
\* exactly 80%, is kept.
C22_Witness ==
  /\ op = "vectorizer_params" /\ pc = "done"
  /\ params.corpus_size = 25
  /\ params.df = 20
  /\ params.min_df = 2
  /\ params.in_vocabulary
\* C26: with use_morphology=True, when neither KOMORAN nor Okt can be
\* initialised the constructed extractor has use_morphology False and
\* morph_analyzer None, and extract_keywords takes the basic frequency path.
C26_DegradesToBasicPath ==
  (/\ op = "TopicExtractor"
   /\ pc \in {"ready", "done"}
   /\ extractor.komoran # "ok"
   /\ extractor.okt # "ok") =>
    /\ ~extractor.use_morphology
    /\ extractor.morph_analyzer = PyNone
    /\ (pc = "done" /\ Len(corpus) > 0) => path = "_extract_keywords_basic"
\* every non-empty substring of s
Substrings(s) == {SubSeq(s, i, j) : i \in 1..Len(s), j \in 1..Len(s)} \ {<<>>}

\* the acceptance condition of gate 1, stated on the candidate alone
AcceptedByGate1(topic) ==
  /\ Substrings(Lower(topic)) \cap GARBAGE_TOKENS = {}
  /\ Len(topic) > 1
  /\ \E i \in 1..Len(topic) : ~IsDigitChar(topic[i])
  /\ \A i \in 1..Len(topic) : ~IsDigitChar(topic[i])
  /\ Lower(topic) \notin {<<97, 105>>, <<114, 115, 115>>, <<120, 109, 108>>,
                          <<106, 115, 111, 110>>}

\* gate 1 has run: inside a top_topics call that ranked candidates, or on a
\* candidate list of its own
Gate1Done ==
  \/ TopicsDone /\ path \in {"statistical", "fallback_quality"}
  \/ op = "quality_gate_1" /\ pc = "done"

\* C23: gate 1 accepts a candidate if and only if no garbage token is a
\* substring of its lowercase form, it is longer than one character, is not
\* purely numeric, contains no digit, and its lowercase form is none of ai,
\* rss, xml, json; the survivors keep the candidates' relative order.
C23_Gate1AcceptsIff ==
  Gate1Done =>
    filtered_topics =
      Select(top_topics_list,
             [i \in 1..Len(top_topics_list) |-> AcceptedByGate1(top_topics_list[i])])

\* C23 witness: a call in which gate 1 rejected "topic" for the substring
\* "top", rejected "rss" as an exact match, and kept "feed".
C23_Witness ==
  /\ TopicsDone
  /\ path \in {"statistical", "fallback_quality"}
  /\ <<116, 111, 112, 105, 99>> \in Range(top_topics_list)
  /\ <<114, 115, 115>> \in Range(top_topics_list)
  /\ filtered_topics = <<<<102, 101, 101, 100>>>>
\* no whitespace-separated word of the lowercased topic is a forbidden token
NoForbiddenWord(topic) == Range(Split(Lower(topic))) \cap forbidden_tokens = {}

\* the first k gate-1 survivors
FirstK == SubSeq(filtered_topics, 1, Min(k, Len(filtered_topics)))

\* C24: gate 2 runs after the cut: the gate-2 survivors are the first k
\* gate-1 survivors without those having a forbidden word, in order; the
\* statistical result is exactly that list, so a topic gate 2 rejected is
\* never replaced by a gate-1 survivor beyond the first k.
C24_Gate2AfterTruncation ==
  (TopicsDone /\ path \in {"statistical", "fallback_quality"}) =>
    /\ final_filtered_topics =
         Select(FirstK, [i \in 1..Len(FirstK) |-> NoForbiddenWord(FirstK[i])])
    /\ path = "statistical" =>
         /\ result = ReturnedList(final_filtered_topics)
         /\ \A i \in 1..Len(result.topics) : result.topics[i] \in Range(FirstK)

\* C24 witness: with k = 1 the first gate-1 survivor "feed" was rejected by
\* gate 2 and the call returned the empty list, although "model" had passed
\* gate 1 behind it and passes gate 2.
C24_Witness ==
  /\ TopicsDone
  /\ path = "statistical"
  /\ k = 1
  /\ Len(filtered_topics) > 1
  /\ filtered_topics[1] = <<102, 101, 101, 100>>
  /\ <<109, 111, 100, 101, 108>> \in Range(filtered_topics)
  /\ NoForbiddenWord(<<109, 111, 100, 101, 108>>)
  /\ result = ReturnedList(<<>>)
\* xs is ys with some elements left out
RECURSIVE IsSubsequence(_, _)
IsSubsequence(xs, ys) ==
  IF Len(xs) = 0 THEN TRUE
  ELSE IF Len(ys) = 0 THEN FALSE
  ELSE IF xs[1] = ys[1] THEN IsSubsequence(Tail(xs), Tail(ys))
  ELSE IsSubsequence(xs, Tail(ys))

\* xs is in non-increasing order of score, as far as scores known to within
\* tol can tell
Descending(xs, scores, tol) ==
  \A i \in 1..Len(xs) : \A j \in (i + 1)..Len(xs) :
    scores[xs[i]] + tol >= scores[xs[j]]

\* C25: on the statistical path the candidates are min(3k, vocabulary size)
\* distinct vocabulary terms with a positive mean score, no term left out
\* scoring higher than a candidate, in descending order of mean score; the
\* returned list is a subsequence of the candidates and so in non-increasing
\* order of mean score.
C25_CandidatesRanked ==
  (TopicsDone /\ path \in {"statistical", "fallback_quality"}) =>
    \A scores \in {Scores(Rows(corpus))} :
      /\ Len(top_topics_list) = Min(3 * k, Cardinality(DOMAIN scores))
      /\ Range(top_topics_list) \subseteq DOMAIN scores
      /\ Cardinality(Range(top_topics_list)) = Len(top_topics_list)
      /\ \A t \in Range(top_topics_list) :
           /\ scores[t] > 0
           /\ \A u \in DOMAIN scores \ Range(top_topics_list) :
                scores[t] + ScoreTol(Len(corpus)) >= scores[u]
      /\ Descending(top_topics_list, scores, ScoreTol(Len(corpus)))
      /\ path = "statistical" =>
           /\ IsSubsequence(result.topics, top_topics_list)
           /\ Descending(result.topics, scores, ScoreTol(Len(corpus)))

\* C25 witness: for ['AI model', '기술 c++ 42'] and k = 2 the call returned
\* '기술', the only term of its document, ahead of 'model', one of three
\* terms of its document and so of lower mean score.
C25_Witness ==
  /\ TopicsDone
  /\ path = "statistical"
  /\ k = 2
  /\ result = ReturnedList(<<<<44592, 49696>>, <<109, 111, 100, 101, 108>>>>)
  /\ Len(top_topics_list) = 4
  /\ \E scores \in {Scores(Rows(corpus))} :
       scores[<<44592, 49696>>] > scores[<<109, 111, 100, 101, 108>>] + ScoreTol(Len(corpus))
\* every document of the corpus is a str
AllStr == \A i \in 1..Len(corpus) : IsStr(corpus[i])

\* every term of the corpus is found in more than 80% of the documents
EveryTermTooFrequent ==
  \A rows \in {Rows(corpus)} :
    \A t \in AllTerms(rows) : 10 * DocFreq(t, rows) > 8 * Len(rows)

\* C27: when every term of a corpus of strings is found in more than 80% of
\* the documents, as for one document and for identical documents, the
\* vectorizer keeps no term and top_topics returns the fallback extractor's
\* result for the same corpus and k.
C27_NoVocabularyGivesFallback ==
  (TopicsDone /\ Len(corpus) > 0 /\ AllStr) =>
    /\ (Len(corpus) = 1 \/ \A i \in 1..Len(corpus) : corpus[i] = corpus[1])
         => EveryTermTooFrequent
    /\ EveryTermTooFrequent =>
         /\ path = "fallback_exception"
         /\ top_topics_list = <<>>
         /\ result = ReturnedList(_fallback_keyword_extraction(corpus, k))

\* C27 witness: for ['AI model', 'AI model'] and k = 1 both terms are in
\* every document, and the call returned the fallback's ['model'].
C27_Witness ==
  /\ TopicsDone
  /\ corpus = <<PyStr(<<65, 73, 32, 109, 111, 100, 101, 108>>),
                PyStr(<<65, 73, 32, 109, 111, 100, 101, 108>>)>>
  /\ k = 1
  /\ EveryTermTooFrequent
  /\ path = "fallback_exception"
  /\ result = ReturnedList(<<<<109, 111, 100, 101, 108>>>>)
\* C28: for k = 0 and k = 1 the threshold k // 2 is 0, so the circuit-breaker
\* never fires: when the vectorizer succeeds, top_topics returns the gate-2
\* survivors, the empty list included, and never the fallback's result in
\* their place.
C28_BreakerSilentForSmallK ==
  (TopicsDone /\ k \in {0, 1} /\ Len(corpus) > 0 /\ AllStr
     /\ VectorizerError(corpus) = "none") =>
    /\ k \div 2 = 0
    /\ path = "statistical"
    /\ result = ReturnedList(final_filtered_topics)

\* C28 witness: for ['AI model', 'feed'] and k = 1 gate 2 left nothing and
\* the call returned the empty list, where the fallback extractor would have
\* returned a keyword.
C28_Witness ==
  /\ TopicsDone
  /\ k = 1
  /\ VectorizerError(corpus) = "none"
  /\ path = "statistical"
  /\ final_filtered_topics = <<>>
  /\ result = ReturnedList(<<>>)
  /\ Len(_fallback_keyword_extraction(corpus, k)) = 1
\* the distinct tokens of the corpus that pass every filter of the fallback
\* extractor, the final list included, in order of first occurrence
Survivors(corp) ==
  CHOOSE s \in
    {Select(keys, [i \in 1..Len(keys) |-> FallbackFinalKeep(keys[i])]) :
       keys \in {Distinct(AllWords(corp))}} : TRUE

\* C29 as claimed: with at least k distinct surviving tokens the fallback
\* extractor returns exactly k tokens, the k most frequent survivors; with
\* fewer it returns all of them.
C29_ExactlyKMostFrequent ==
  (FallbackDone /\ \A i \in 1..Len(corpus) : IsStr(corpus[i])) =>
    \A survivors \in {Survivors(corpus)} :
      IF Len(survivors) >= k
        THEN /\ Len(result.topics) = k
             /\ result.topics = MostCommonFrom(survivors, AllWords(corpus), k)
        ELSE /\ Len(result.topics) = Len(survivors)
             /\ Range(result.topics) = Range(survivors)
\* C30: the list top_topics returns never holds the same topic twice,
\* whether it comes from the ranked vocabulary or from the fallback's
\* counted tokens.
C30_NoDuplicateTopic ==
  TopicsReturned =>
    \A i \in 1..Len(result.topics) : \A j \in 1..Len(result.topics) :
      result.topics[i] = result.topics[j] => i = j

\* C30 witness: 'computer feed feed' holds 'feed' twice, and the fallback
\* path returned it once, ahead of 'computer'.
C30_Witness ==
  /\ TopicsReturned
  /\ path = "fallback_exception"
  /\ corpus = <<PyStr(<<99, 111, 109, 112, 117, 116, 101, 114, 32, 102, 101, 101, 100,
                        32, 102, 101, 101, 100>>)>>
  /\ k = 2
  /\ result = ReturnedList(<<<<102, 101, 101, 100>>,
                             <<99, 111, 109, 112, 117, 116, 101, 114>>>>)
====
